---- MODULE Spec2Model ----
(***************************************************************************)
(* Model of the live voice-call orchestrator of the VCA repository:        *)
(*   backend/ai_services/ai_loop_handler.py   AILoopHandler                *)
(*   backend/ai_services/conversation_state.py ConversationStateManager    *)
(*   backend/ai_services/ari_client.py        ARIClient                    *)
(* One call is one run of handle_inbound_call.  The Redis entry of the     *)
(* call, the ARI session, the clock and the outcomes of the external       *)
(* services are the environment.                                           *)
(*                                                                         *)
(* Reading of _conversation_loop's handlers (ai_loop_handler.py 367-430):  *)
(* the `except` headers at lines 378, 388, 398 and 408 are followed by     *)
(* their statements at the header's own indentation, and the header at     *)
(* line 419 sits one level left of the inner `try`.  The handlers are      *)
(* modelled as six clauses of the inner try (line 261), in textual order,  *)
(* each with the statements that follow its header as its body.  The body  *)
(* of the clause at 419 contains `break`, so it belongs inside the loop;   *)
(* it follows an `except Exception` clause (408) and therefore never       *)
(* fires.                                                                  *)
(***************************************************************************)
EXTENDS Integers, Sequences, FiniteSets, TLC

VARIABLES
    pc,              \* position of handle_inbound_call / _conversation_loop
    store,           \* the Redis key call:{call_id}:state (document + expiry)
    redisUp,         \* whether Redis answers requests
    outages,         \* number of Redis outages so far
    faults,          \* number of service and transport faults so far
    now,             \* time.time()
    session,         \* ARIClient.session is set
    answered,        \* the channel has been answered
    iteration,       \* _conversation_loop.iteration
    audio_buffer,    \* _conversation_loop.audio_buffer (chunk numbers)
    buffer_duration_ms,
    caller_text,     \* result of the last transcription
    ai_response,     \* result of the last generation
    exc,             \* exception in flight / being handled
    endReason,       \* reason argument of _end_call_gracefully
    spoken,          \* lines played to the caller, in order
    sttCalls,        \* invocations of stt.transcribe_audio
    llmCalls,        \* invocations of llm.generate_response inside the loop
    emptyRun,        \* consecutive empty transcriptions (ground truth)
    nonEmpty,        \* non-empty transcriptions so far (ground truth)
    runStart,        \* Len(spoken) when the current run of empty transcriptions began
    heard,           \* the non-empty transcriptions, each with Len(spoken) at its time
    loop_duration,   \* _conversation_loop.loop_duration of this iteration, in ms (0: not measured)
    lastFailure,     \* the failure most recently caught by a loop handler
    loopExit,        \* how the conversation loop was left
    teardown,        \* which teardown steps were attempted
    outcome,         \* how handle_inbound_call finished
    storeLog,        \* the last store operation applied directly, and its result
    written,         \* the turns add_turn has stored, in call order (ground truth)
    service,         \* one invocation of a turn service: its attempts and requests
    client,          \* the ARIClient of one AILoopHandler shared by concurrent calls
    calls,           \* the concurrent calls of that handler: position, session in use
    keyspace,        \* the Redis keys of the concurrent calls
    lastOp,          \* the last store operation of a concurrent call, and its call id
    vad,             \* one audio chunk and the classifications ARIClient._is_silence gave it
    stream,          \* stream_audio_from_caller and the loop consuming it
    notif,           \* NotificationService: the notification log and the senders in flight
    tata             \* TataTelephonyAdapter.on_inbound_call: database and result

vars == << pc, store, redisUp, outages, faults, now, session, answered, iteration,
           audio_buffer, buffer_duration_ms, caller_text, ai_response, exc,
           endReason, spoken, sttCalls, llmCalls, emptyRun, nonEmpty,
           runStart, heard, loop_duration, lastFailure, loopExit, teardown, outcome, storeLog,
           written, service, client, calls, keyspace, lastOp, vad, stream,
           notif, tata >>

-----------------------------------------------------------------------------
(* Bounds of the model *)

\* _conversation_loop.max_iterations (50 in the source), scaled
MaxIterations == 7
\* _conversation_loop.max_buffer_duration_ms (3000 in the source), scaled
MaxBufferDurationMs == 400
\* settings.max_conversation_turns (default 5), scaled
MaxTurns == 2
\* settings.max_conversation_duration_seconds (default 75), in clock ticks
MaxDuration == 2
\* horizon of the clock
MaxClock == 3
\* number of Redis outages in one call
MaxOutages == 1
\* number of service and transport faults in one call
MaxFaults == 2
\* number of add_turn calls applied directly to the store
MaxAppends == 2
\* number of increment_silence_count calls applied directly to the store
MaxSilence == 2
\* store operations of one of two concurrent calls between connect and teardown
MaxCallOps == 2
\* time in which a backing service answers or refuses a request, in ms
QuickRequestMs == 50
\* time of a slow answer or refusal of a backing service, in ms
SlowRequestMs == 300
\* length of an audio chunk given to the voice-activity detector, in bytes
MaxChunkBytes == 4
\* invocations of send_call_summary for one call
MaxSenders == 2
\* chunks the network delivers on one audio stream
MaxStreamChunks == 34

(* Program constants *)

\* ARIClient.chunk_duration_ms
chunk_duration_ms == 200
\* ARIClient.silence_threshold
silence_threshold == 500
\* ARIClient.silence_duration_ms
silence_duration_ms == 1500
\* _conversation_loop.max_buffer_duration_ms
max_buffer_duration_ms == 3000
\* AILoopHandler.per_step_timeout, in milliseconds
per_step_timeout == 1200
\* AILoopHandler.total_loop_timeout, in milliseconds
total_loop_timeout == 1500
\* ConversationStateManager.state_ttl: one hour, far beyond the duration
\* ceiling of a call, so it exceeds the clock horizon
state_ttl == MaxClock + 2

-----------------------------------------------------------------------------
(* ConversationStateManager: the store *)

NoEntry == [missing |-> TRUE]
None == "None"

RedisGetForever(s, t) == s

\* redis.get(key): an expired key reads as absent
RedisGet(s, t) == IF s = NoEntry THEN NoEntry
                  ELSE IF t >= s.expires THEN NoEntry ELSE s

\* get_state raises ConversationStateError when Redis does not answer
GetStateRaises(up) == ~up

\* initialize_call: the initial document, stored with the TTL
initialize_call(t) ==
    [ tenant_id     |-> "tenant",
      ai_profile_id |-> "profile",
      started_at    |-> t,
      turn_count    |-> 0,
      conversation_history |-> << >>,
      state         |-> "active",
      silence_count |-> 0,
      ai_exit_reason |-> None,
      expires       |-> t + state_ttl ]

\* add_turn raises when Redis is down or the entry is missing
AddTurnRaises(s, up, t) == ~up \/ RedisGet(s, t) = NoEntry

TurnIncrementAny(role) == 1

\* add_turn: turn_count grows only for user messages
TurnIncrement(role) == IF role = "user" THEN 1 ELSE 0

add_turn_prepend(s, up, t, role, content) ==
    IF AddTurnRaises(s, up, t) THEN s
    ELSE [ s EXCEPT
             !.conversation_history =
                 << [role |-> role, content |-> content, timestamp |-> t] >> \o @,
             !.turn_count = @ + TurnIncrement(role),
             !.expires = t + state_ttl ]

\* add_turn: append the message, count user turns, setex with the TTL
add_turn(s, up, t, role, content) ==
    IF AddTurnRaises(s, up, t) THEN s
    ELSE [ s EXCEPT
             !.conversation_history =
                 Append(@, [role |-> role, content |-> content, timestamp |-> t]),
             !.turn_count = @ + TurnIncrement(role),
             !.expires = t + state_ttl ]

\* get_conversation_history: role and content of each message, in order
get_conversation_history(s, t) ==
    IF RedisGet(s, t) = NoEntry THEN << >>
    ELSE [ i \in 1..Len(s.conversation_history) |->
             [ role    |-> s.conversation_history[i].role,
               content |-> s.conversation_history[i].content ] ]

LimitReasonDurationFirst(st, t) ==
    IF t - st.started_at >= MaxDuration THEN "max_duration"
    ELSE IF st.turn_count >= MaxTurns THEN "max_turns"
    ELSE None

\* should_end_conversation, lines 270-289: the turn limit is checked before
\* the duration limit
LimitReason(st, t) ==
    IF st.turn_count >= MaxTurns THEN "max_turns"
    ELSE IF t - st.started_at >= MaxDuration THEN "max_duration"
    ELSE None

should_end_strict(s, t) ==
    LET st == RedisGet(s, t) IN
    IF st = NoEntry THEN "no_state"
    ELSE IF st.state \in {"ending", "ended"} THEN "already_ending"
    ELSE IF st.turn_count > MaxTurns THEN "max_turns"
    ELSE IF t - st.started_at >= MaxDuration THEN "max_duration"
    ELSE None

\* should_end_conversation: the reason to end, or None to continue
should_end_conversation(s, t) ==
    LET st == RedisGet(s, t) IN
    IF st = NoEntry THEN "no_state"
    ELSE IF st.state \in {"ending", "ended"} THEN "already_ending"
    ELSE LimitReason(st, t)

\* increment_silence_count: the value returned (0 on any failure)
SilenceReturn(s, up, t) ==
    IF up /\ RedisGet(s, t) # NoEntry THEN s.silence_count + 1 ELSE 0

increment_silence_fresh(s, up, t) ==
    IF up /\ RedisGet(s, t) # NoEntry
    THEN [ s EXCEPT !.silence_count = @ + 1, !.conversation_history = << >>,
                    !.expires = t + state_ttl ]
    ELSE s

\* increment_silence_count: the entry written
increment_silence_count(s, up, t) ==
    IF up /\ RedisGet(s, t) # NoEntry
    THEN [ s EXCEPT !.silence_count = @ + 1, !.expires = t + state_ttl ]
    ELSE s

reset_silence_keep(s, up, t) == s

\* reset_silence_count
reset_silence_count(s, up, t) ==
    IF up /\ RedisGet(s, t) # NoEntry
    THEN [ s EXCEPT !.silence_count = 0, !.expires = t + state_ttl ]
    ELSE s

set_exit_reason_keepttl(s, up, t, reason) ==
    IF up /\ RedisGet(s, t) # NoEntry
    THEN [ s EXCEPT !.ai_exit_reason = reason ]
    ELSE s

\* set_exit_reason: overwrites ai_exit_reason; failures are swallowed
set_exit_reason(s, up, t, reason) ==
    IF up /\ RedisGet(s, t) # NoEntry
    THEN [ s EXCEPT !.ai_exit_reason = reason, !.expires = t + state_ttl ]
    ELSE s

mark_ending_keep(s, up, t, reason) ==
    IF up /\ RedisGet(s, t) # NoEntry
    THEN [ s EXCEPT !.ai_exit_reason = IF reason # None THEN reason ELSE @,
                    !.expires = t + state_ttl ]
    ELSE s

\* mark_ending: state becomes "ending"; a given reason overwrites
mark_ending(s, up, t, reason) ==
    IF up /\ RedisGet(s, t) # NoEntry
    THEN [ s EXCEPT !.state = "ending",
                    !.ai_exit_reason = IF reason # None THEN reason ELSE @,
                    !.expires = t + state_ttl ]
    ELSE s

\* end_call: delete the key; failures are swallowed
end_call(s, up) == IF up THEN NoEntry ELSE s

-----------------------------------------------------------------------------
(* AILoopHandler: canned lines and exception dispatch *)

ExitKeys == { "stt_failure", "llm_failure", "tts_failure", "max_turns",
              "max_duration", "silence", "confusion", "timeout",
              "general_error" }

\* AILoopHandler.error_responses
error_responses ==
    [ stt_failure   |-> "I'm sorry, I'm having trouble hearing you. Goodbye.",
      llm_failure   |-> "I apologize, I'm having technical difficulties. Goodbye.",
      tts_failure   |-> "I'm experiencing audio issues. Goodbye.",
      max_turns     |-> "Thank you for calling. I hope I was able to help you today. Goodbye!",
      max_duration  |-> "I apologize, but we've reached the maximum call duration. Thank you for calling!",
      silence       |-> "I haven't heard from you. Thank you for calling. Goodbye.",
      confusion     |-> "I'm sorry, I'm unable to help with that. Goodbye.",
      timeout       |-> "I apologize for the delay. Goodbye.",
      general_error |-> "I apologize for the inconvenience. Goodbye." ]

GoodbyeDefault(reason) == "Thank you for calling. Goodbye!"

\* error_responses.get(reason, "Thank you for calling. Goodbye!")
Goodbye(reason) ==
    IF reason \in ExitKeys THEN error_responses[reason]
    ELSE "Thank you for calling. Goodbye!"

SilencePrompt == "Are you still there?"
\* the greeting: the generated text, or the fallback of _generate_greeting
GreetingLine == "Hello! How can I help you today?"
PlainResponse == "Sure, I can help with that."
ConfusedResponse == "I'm not sure about that."
CallerUtterance == "hello"

ExcKinds == { "TimeoutError", "STTServiceError", "LLMServiceError",
              "TTSServiceError", "ARIClientError", "ConversationStateError",
              "AILoopHandlerError", "CancelledError" }

IsExceptionNarrow(e) == e \in { "TimeoutError", "STTServiceError",
                                "LLMServiceError", "TTSServiceError" }

\* `except Exception` matches every error except task cancellation
IsException(e) == e # "CancelledError"

\* the clause of the inner try that catches e ("none": it propagates)
InnerClause(e) ==
    IF e = "TimeoutError" THEN "timeout"
    ELSE IF e = "STTServiceError" THEN "stt"
    ELSE IF e = "LLMServiceError" THEN "llm"
    ELSE IF e = "TTSServiceError" THEN "tts"
    ELSE IF IsException(e) THEN "exception"
    ELSE "none"

ClauseReasonSwapped(clause) ==
    IF clause = "timeout" THEN "stt_failure"
    ELSE IF clause = "stt" THEN "stt_failure"
    ELSE IF clause = "llm" THEN "llm_failure"
    ELSE IF clause = "tts" THEN "tts_failure"
    ELSE "timeout"

\* the exit reason each clause passes to set_exit_reason
ClauseReason(clause) ==
    IF clause = "timeout" THEN "timeout"
    ELSE IF clause = "stt" THEN "stt_failure"
    ELSE IF clause = "llm" THEN "llm_failure"
    ELSE IF clause = "tts" THEN "tts_failure"
    ELSE "timeout"

ClauseBreaksOnFailureOnly(clause, played) == ~played

\* whether the clause leaves the loop: the timeout clause and the catch-all
\* clause break after the apology; the three service clauses break only
\* inside `except Exception` around the apology
ClauseBreaks(clause, played) ==
    IF clause \in {"stt", "llm", "tts"} THEN ~played ELSE TRUE

\* _play_response: outcomes of synthesis and playback
PlayOutcomes == { "played", "tts_error", "ari_error" }

\* _play_response re-raises TTSServiceError and ARIClientError
PlayRaises(r) ==
    IF r = "tts_error" THEN "TTSServiceError"
    ELSE IF r = "ari_error" THEN "ARIClientError"
    ELSE IF r = "timeout" THEN "TimeoutError"
    ELSE "none"

\* _play_response: the line reaches the caller
PlaySpoken(sp, r, text) == IF r = "played" THEN Append(sp, text) ELSE sp

PlayStoreAlways(s, up, t, r, text, context) ==
    IF context # "greeting"
    THEN add_turn(s, up, t, "assistant", text)
    ELSE s

\* _play_response: a played line other than the greeting is added as an
\* assistant turn; a failure of add_turn is swallowed
PlayStore(s, up, t, r, text, context) ==
    IF r = "played" /\ context # "greeting"
    THEN add_turn(s, up, t, "assistant", text)
    ELSE s

IsConfusedNever(text) == FALSE

\* confusion_phrases check on the generated text
IsConfused(text) == text = ConfusedResponse

NoFailure == [ exc |-> "none", reason |-> None, apology |-> "", played |-> FALSE,
               iteration |-> 0, stt |-> 0, llm |-> 0 ]

NoTeardown == [ called |-> FALSE, mark |-> FALSE, reason |-> None,
                hangup |-> FALSE, sent |-> FALSE, delete |-> FALSE,
                disconnect |-> FALSE ]

\* no turn service was invoked yet
NoService == [ name |-> "none", budget |-> 0, attempt |-> 0, requests |-> 0,
               elapsed |-> 0, phase |-> "idle" ]

\* the call ids of two concurrent calls
CallIds == { "A", "B" }

_call_key_shared(call_id) == "call:state"

\* ConversationStateManager._call_key
_call_key(call_id) == "call:" \o call_id \o ":state"

\* the keys of the concurrent calls
CallKeys == { _call_key(c) : c \in CallIds }

\* one AILoopHandler just constructed: ARIClient.session is None (0), no
\* call has started, Redis holds no key
NoCalls ==
    /\ client = [ session |-> 0, opened |-> {}, next |-> 1 ]
    /\ calls = [ c \in CallIds |-> [ phase |-> "new", uses |-> 0, ops |-> 0,
                                     media |-> "none" ] ]
    /\ keyspace = [ k \in CallKeys |-> NoEntry ]
    /\ lastOp = [ call |-> "none", op |-> "none", seq |-> 0 ]

\* no chunk has been classified
NoVad == [ chunk |-> << >>, results |-> << >> ]

\* the stream has not been opened
NoStream ==
    [ phase |-> "idle", total_chunks |-> 0, silence_chunks |-> 0,
      yielded |-> 0, last |-> "none", all_silent |-> TRUE,
      buffer_duration_ms |-> 0, voiced |-> FALSE, silence_count |-> 0,
      transcriptions |-> 0, exit_reason |-> None ]

\* the invocations of send_call_summary for one call
Senders == 1..MaxSenders

\* no notification was requested: NotificationLog has no row for the call and
\* nothing was delivered
NoNotif ==
    [ log       |-> << >>,
      delivered |-> << >>,
      inv       |-> [ i \in Senders |->
                        [ pc |-> "idle", phone |-> FALSE, email |-> FALSE,
                          tried |-> << >> ] ] ]

\* no inbound call reached the Tata adapter
NoTata == [ phase |-> "idle" ]

\* tenants and PhoneNumber ids known to the database or sent by a caller
TenantIds == { "tenant1", "tenant2" }
PhoneIds == { "phone1", "phone2" }

\* the detector, the stream, the notification service and the adapter at rest
IdleAux ==
    /\ vad = NoVad
    /\ stream = NoStream
    /\ notif = NoNotif
    /\ tata = NoTata

\* no store operation was applied yet
NoStoreLog == [ op |-> "none", ok |-> FALSE, lastWrite |-> -1 ]

-----------------------------------------------------------------------------
(* Control flow helpers *)

envVars   == << redisUp, outages, now >>

\* outcomes the environment may still produce: faulty ones only while the
\* fault budget lasts
Allowed(all, good) == IF faults < MaxFaults THEN all ELSE good

Fault(bad) == faults' = IF bad THEN faults + 1 ELSE faults
ariVars   == << session, answered >>
bufVars   == << audio_buffer, buffer_duration_ms >>
textVars  == << caller_text, ai_response >>
countVars == << sttCalls, llmCalls, emptyRun, nonEmpty, runStart, heard >>
logVars   == << storeLog, written >>
\* the variables of two calls running concurrently on one handler
sharedVars == << client, calls, keyspace, lastOp >>
\* the variables of the voice-activity detector, the transport stream, the
\* notification service and the Tata adapter
auxVars == << vad, stream, notif, tata >>
\* the variables of everything but the single call and its store entry
sideVars  == << service, sharedVars, auxVars >>

\* the step completes and control moves to position p
Goto(p, s) ==
    /\ pc' = p
    /\ store' = s
    /\ exc' = "none"
    /\ UNCHANGED << endReason, loopExit >>

\* an error reaches handle_inbound_call (lines 189-204): `except Exception`
\* ends the call with reason "failed"; anything else goes to `finally`
HandleRaise(e, s, via) ==
    /\ store' = s
    /\ loopExit' = via
    /\ IF IsException(e)
       THEN pc' = "teardown" /\ endReason' = "failed" /\ exc' = "none"
       ELSE pc' = "finally" /\ endReason' = endReason /\ exc' = e

\* `break`, or the stream ends: _conversation_loop returns and
\* handle_inbound_call calls _end_call_gracefully(..., "completed")
Break(via, s) ==
    /\ pc' = "teardown"
    /\ store' = s
    /\ exc' = "none"
    /\ endReason' = "completed"
    /\ loopExit' = via

\* an error raised by the stream or escaping the inner try reaches the outer
\* try (lines 432-440): cancellation is re-raised, any other Exception sets
\* "general_error" and the loop function returns
StreamRaise(e, s) ==
    IF e # "CancelledError" /\ IsException(e)
    THEN Break("stream_error", set_exit_reason(s, redisUp, now, "general_error"))
    ELSE HandleRaise(e, s, "raised")

\* an error raised inside the inner try (lines 261-365)
LoopRaise(e, s) ==
    IF InnerClause(e) # "none"
    THEN /\ pc' = "handler"
         /\ store' = s
         /\ exc' = e
         /\ UNCHANGED << endReason, loopExit >>
    ELSE StreamRaise(e, s)

-----------------------------------------------------------------------------
(* handle_inbound_call: entry sequence *)

Init ==
    /\ pc = "init"
    /\ store = NoEntry
    /\ redisUp = TRUE
    /\ outages = 0
    /\ faults = 0
    /\ now = 0
    /\ session = FALSE
    /\ answered = FALSE
    /\ iteration = 0
    /\ audio_buffer = << >>
    /\ buffer_duration_ms = 0
    /\ caller_text = ""
    /\ ai_response = ""
    /\ exc = "none"
    /\ endReason = None
    /\ spoken = << >>
    /\ sttCalls = 0
    /\ llmCalls = 0
    /\ emptyRun = 0
    /\ nonEmpty = 0
    /\ runStart = 0
    /\ heard = << >>
    /\ loop_duration = 0
    /\ lastFailure = NoFailure
    /\ loopExit = "none"
    /\ teardown = NoTeardown
    /\ outcome = "running"
    /\ storeLog = NoStoreLog
    /\ written = << >>
    /\ service = NoService
    /\ NoCalls
    /\ IdleAux

\* Step 1: state_mgr.initialize_call
InitializeCall ==
    /\ pc = "init"
    /\ IF redisUp
       THEN Goto("profile", initialize_call(now))
       ELSE HandleRaise("ConversationStateError", store, loopExit)
    /\ UNCHANGED << envVars, faults, ariVars, iteration, bufVars, textVars,
                    spoken, countVars, lastFailure, teardown, outcome, logVars, sideVars, loop_duration >>

\* Step 2: the AI profile is looked up; a missing profile raises
LoadProfile ==
    /\ pc = "profile"
    /\ \E found \in Allowed(BOOLEAN, {TRUE}) :
         /\ Fault(~found)
         /\ IF found THEN Goto("connect", store)
            ELSE HandleRaise("AILoopHandlerError", store, loopExit)
    /\ UNCHANGED << envVars, ariVars, iteration, bufVars, textVars, spoken,
                    countVars, lastFailure, teardown, outcome, logVars, sideVars, loop_duration >>

\* Step 3: ari.connect; the HTTP session object exists once it was created,
\* also when the WebSocket connection then fails
Connect ==
    /\ pc = "connect"
    /\ \E r \in Allowed({"connected", "ws_failed", "session_failed"},
                        {"connected"}) :
         /\ Fault(r # "connected")
         /\ session' = (r # "session_failed")
         /\ IF r = "connected" THEN Goto("answer", store)
            ELSE HandleRaise("ARIClientError", store, loopExit)
    /\ UNCHANGED << envVars, answered, iteration, bufVars, textVars, spoken,
                    countVars, lastFailure, teardown, outcome, logVars, sideVars, loop_duration >>

AnswerCallSkipped ==
    /\ pc = "answer"
    /\ answered' = FALSE
    /\ Goto("greeting", store)
    /\ UNCHANGED << envVars, faults, session, iteration, bufVars, textVars, spoken,
                    countVars, lastFailure, teardown, outcome, logVars, sideVars, loop_duration >>

\* Step 4: ari.answer_call
AnswerCall ==
    /\ pc = "answer"
    /\ \E ok \in Allowed(BOOLEAN, {TRUE}) :
         /\ Fault(~ok)
         /\ answered' = ok
         /\ IF ok THEN Goto("greeting", store)
            ELSE HandleRaise("ARIClientError", store, loopExit)
    /\ UNCHANGED << envVars, session, iteration, bufVars, textVars, spoken,
                    countVars, lastFailure, teardown, outcome, logVars, sideVars, loop_duration >>

GreetingRecorded ==
    /\ pc = "greeting"
    /\ \E r \in Allowed(PlayOutcomes, {"played"}) :
         /\ Fault(r # "played")
         /\ spoken' = PlaySpoken(spoken, r, GreetingLine)
         /\ IF r = "played"
            THEN Goto("next_chunk",
                      PlayStore(store, redisUp, now, r, GreetingLine, "response"))
            ELSE HandleRaise(PlayRaises(r), store, loopExit)
    /\ UNCHANGED << envVars, ariVars, iteration, bufVars, textVars,
                    countVars, lastFailure, teardown, outcome, logVars, sideVars, loop_duration >>

\* Step 5: _generate_greeting (with its fallback) and _play_response with
\* context "greeting"
Greeting ==
    /\ pc = "greeting"
    /\ \E r \in Allowed(PlayOutcomes, {"played"}) :
         /\ Fault(r # "played")
         /\ spoken' = PlaySpoken(spoken, r, GreetingLine)
         /\ IF r = "played"
            THEN Goto("next_chunk",
                      PlayStore(store, redisUp, now, r, GreetingLine, "greeting"))
            ELSE HandleRaise(PlayRaises(r), store, loopExit)
    /\ UNCHANGED << envVars, ariVars, iteration, bufVars, textVars,
                    countVars, lastFailure, teardown, outcome, logVars, sideVars, loop_duration >>

-----------------------------------------------------------------------------
(* _conversation_loop *)

\* length of the caller's audio stream, in chunks
MaxChunks == MaxIterations + 1

\* `async for`: the next chunk arrives
StreamNext ==
    /\ pc = "next_chunk"
    /\ iteration < MaxChunks
    /\ iteration' = iteration + 1
    /\ loop_duration' = 0
    /\ Goto("check_end", store)
    /\ UNCHANGED << envVars, faults, ariVars, bufVars, textVars, spoken,
                    countVars, lastFailure, teardown, outcome, logVars, sideVars >>

StreamEndsAsFailure ==
    /\ pc = "next_chunk"
    /\ Break("stream_end", set_exit_reason(store, redisUp, now, "general_error"))
    /\ UNCHANGED << envVars, faults, ariVars, iteration, bufVars, textVars,
                    spoken, countVars, lastFailure, teardown, outcome, logVars, sideVars, loop_duration >>

\* `async for`: the stream is exhausted (the caller hung up, or the
\* transport stopped yielding)
StreamEnds ==
    /\ pc = "next_chunk"
    /\ Break("stream_end", store)
    /\ UNCHANGED << envVars, faults, ariVars, iteration, bufVars, textVars,
                    spoken, countVars, lastFailure, teardown, outcome, logVars, sideVars, loop_duration >>

\* `async for`: stream_audio_from_caller raises ARIClientError
StreamFails ==
    /\ pc = "next_chunk"
    /\ faults < MaxFaults
    /\ Fault(TRUE)
    /\ StreamRaise("ARIClientError", store)
    /\ UNCHANGED << envVars, ariVars, iteration, bufVars, textVars, spoken,
                    countVars, lastFailure, teardown, outcome, logVars, sideVars, loop_duration >>

\* the task is cancelled while the loop waits for the next chunk
Cancel ==
    /\ pc = "next_chunk"
    /\ StreamRaise("CancelledError", store)
    /\ UNCHANGED << envVars, faults, ariVars, iteration, bufVars, textVars,
                    spoken, countVars, lastFailure, teardown, outcome, logVars, sideVars, loop_duration >>

\* lines 262-273: should_end_conversation, set_exit_reason, goodbye, break
ShouldEnd ==
    /\ pc = "check_end"
    /\ IF GetStateRaises(redisUp)
       THEN /\ LoopRaise("ConversationStateError", store)
            /\ UNCHANGED << spoken, faults >>
       ELSE LET reason == should_end_conversation(store, now)
                s1 == set_exit_reason(store, redisUp, now, reason)
                goodbye == Goodbye(reason)
            IN  IF reason = None
                THEN Goto("accumulate", store) /\ UNCHANGED << spoken, faults >>
                ELSE \E r \in Allowed(PlayOutcomes, {"played"}) :
                       /\ Fault(r # "played")
                       /\ spoken' = PlaySpoken(spoken, r, goodbye)
                       /\ IF r = "played"
                          THEN Break("policy",
                                     PlayStore(s1, redisUp, now, r, goodbye, "goodbye"))
                          ELSE LoopRaise(PlayRaises(r), s1)
    /\ UNCHANGED << envVars, ariVars, iteration, bufVars, textVars,
                    countVars, lastFailure, teardown, outcome, logVars, sideVars, loop_duration >>

\* lines 275-279: the safety limit on iterations
SafetyLimit ==
    /\ pc = "accumulate"
    /\ iteration >= MaxIterations
    /\ Break("safety", set_exit_reason(store, redisUp, now, "max_turns"))
    /\ UNCHANGED << envVars, faults, ariVars, iteration, bufVars, textVars,
                    spoken, countVars, lastFailure, teardown, outcome, logVars, sideVars, loop_duration >>

AccumulateEager ==
    /\ pc = "accumulate"
    /\ iteration < MaxIterations
    /\ audio_buffer' = Append(audio_buffer, iteration)
    /\ buffer_duration_ms' = buffer_duration_ms + chunk_duration_ms
    /\ Goto("transcribe", store)
    /\ UNCHANGED << envVars, faults, ariVars, iteration, textVars, spoken,
                    countVars, lastFailure, teardown, outcome, logVars, sideVars, loop_duration >>

\* lines 281-286: the chunk is buffered; transcription starts once the
\* buffered duration reaches the threshold
Accumulate ==
    /\ pc = "accumulate"
    /\ iteration < MaxIterations
    /\ audio_buffer' = Append(audio_buffer, iteration)
    /\ buffer_duration_ms' = buffer_duration_ms + chunk_duration_ms
    /\ IF buffer_duration_ms' >= MaxBufferDurationMs
       THEN Goto("transcribe", store)
       ELSE Goto("next_chunk", store)
    /\ UNCHANGED << envVars, faults, ariVars, iteration, textVars, spoken,
                    countVars, lastFailure, teardown, outcome, logVars, sideVars, loop_duration >>

\* lines 287-294: stt.transcribe_audio under wait_for(per_step_timeout)
Transcribe ==
    /\ pc = "transcribe"
    /\ sttCalls' = sttCalls + 1
    /\ \E r \in Allowed({"text", "empty", "stt_error", "timeout"},
                        {"text", "empty"}) :
         /\ Fault(r \in {"stt_error", "timeout"})
         /\ IF r = "text"
            THEN /\ caller_text' = CallerUtterance
                 /\ emptyRun' = 0
                 /\ nonEmpty' = nonEmpty + 1
                 /\ runStart' = runStart
                 /\ heard' = Append(heard, [ text |-> CallerUtterance,
                                             after |-> Len(spoken) ])
                 /\ Goto("reset_silence", store)
            ELSE IF r = "empty"
            THEN /\ caller_text' = ""
                 /\ emptyRun' = emptyRun + 1
                 /\ nonEmpty' = nonEmpty
                 /\ runStart' = IF emptyRun = 0 THEN Len(spoken) ELSE runStart
                 /\ heard' = heard
                 /\ Goto("silence", store)
            ELSE /\ UNCHANGED << caller_text, emptyRun, nonEmpty, runStart, heard >>
                 /\ LoopRaise(IF r = "timeout" THEN "TimeoutError"
                              ELSE "STTServiceError", store)
    /\ UNCHANGED << envVars, ariVars, iteration, bufVars, ai_response, spoken,
                    llmCalls, lastFailure, teardown, outcome, logVars, sideVars, loop_duration >>

SecondSilenceAtThree(n) == n >= 3

\* line 305: the second consecutive silence ends the call
SecondSilence(n) == n >= 2

\* lines 296-316: the empty-transcription branch
Silence ==
    /\ pc = "silence"
    /\ LET n == SilenceReturn(store, redisUp, now)
           s1 == increment_silence_count(store, redisUp, now)
           s2 == set_exit_reason(s1, redisUp, now, "silence")
           goodbye == error_responses["silence"]
       IN  IF n = 1
           THEN \E r \in Allowed(PlayOutcomes, {"played"}) :
                  /\ Fault(r # "played")
                  /\ spoken' = PlaySpoken(spoken, r, SilencePrompt)
                  /\ IF r = "played"
                     THEN /\ audio_buffer' = << >>
                          /\ buffer_duration_ms' = 0
                          /\ Goto("next_chunk",
                                  PlayStore(s1, redisUp, now, r, SilencePrompt,
                                            "silence_prompt"))
                     ELSE /\ UNCHANGED bufVars
                          /\ LoopRaise(PlayRaises(r), s1)
           ELSE IF SecondSilence(n)
           THEN \E r \in Allowed(PlayOutcomes, {"played"}) :
                  /\ Fault(r # "played")
                  /\ spoken' = PlaySpoken(spoken, r, goodbye)
                  /\ UNCHANGED bufVars
                  /\ IF r = "played"
                     THEN Break("silence",
                                PlayStore(s2, redisUp, now, r, goodbye, "goodbye"))
                     ELSE LoopRaise(PlayRaises(r), s2)
           ELSE /\ UNCHANGED << spoken, faults >>
                /\ audio_buffer' = << >>
                /\ buffer_duration_ms' = 0
                /\ Goto("next_chunk", s1)
    /\ UNCHANGED << envVars, ariVars, iteration, textVars, countVars,
                    lastFailure, teardown, outcome, logVars, sideVars, loop_duration >>

\* line 319: reset_silence_count (its failures are swallowed)
ResetSilence ==
    /\ pc = "reset_silence"
    /\ Goto("add_user_turn", reset_silence_count(store, redisUp, now))
    /\ UNCHANGED << envVars, faults, ariVars, iteration, bufVars, textVars,
                    spoken, countVars, lastFailure, teardown, outcome, logVars, sideVars, loop_duration >>

\* line 322: add_turn(call_id, "user", caller_text)
AddUserTurn ==
    /\ pc = "add_user_turn"
    /\ IF AddTurnRaises(store, redisUp, now)
       THEN LoopRaise("ConversationStateError", store)
       ELSE Goto("generate", add_turn(store, redisUp, now, "user", caller_text))
    /\ UNCHANGED << envVars, faults, ariVars, iteration, bufVars, textVars,
                    spoken, countVars, lastFailure, teardown, outcome, logVars, sideVars, loop_duration >>

\* lines 324-341: history is fetched, llm.generate_response runs under
\* wait_for(per_step_timeout); a confused response is spoken and ends the call
Generate ==
    /\ pc = "generate"
    /\ IF GetStateRaises(redisUp)
       THEN /\ LoopRaise("ConversationStateError", store)
            /\ UNCHANGED << ai_response, llmCalls, spoken, faults >>
       ELSE /\ llmCalls' = llmCalls + 1
            /\ \E r \in Allowed({PlainResponse, ConfusedResponse, "llm_error", "timeout"},
                                {PlainResponse, ConfusedResponse}) :
                 IF r = "llm_error" \/ r = "timeout"
                 THEN /\ Fault(TRUE)
                      /\ UNCHANGED << ai_response, spoken >>
                      /\ LoopRaise(IF r = "timeout" THEN "TimeoutError"
                                   ELSE "LLMServiceError", store)
                 ELSE /\ ai_response' = r
                      /\ IF IsConfused(r)
                         THEN LET s1 == set_exit_reason(store, redisUp, now, "confusion")
                              IN \E p \in Allowed(PlayOutcomes, {"played"}) :
                                   /\ Fault(p # "played")
                                   /\ spoken' = PlaySpoken(spoken, p, r)
                                   /\ IF p = "played"
                                      THEN Break("confusion",
                                                 PlayStore(s1, redisUp, now, p, r, "confusion"))
                                      ELSE LoopRaise(PlayRaises(p), s1)
                         ELSE /\ UNCHANGED << spoken, faults >>
                              /\ Goto("speak", store)
    /\ UNCHANGED << envVars, ariVars, iteration, bufVars, caller_text,
                    sttCalls, emptyRun, nonEmpty, runStart, heard, lastFailure, teardown,
                    outcome, logVars, sideVars, loop_duration >>

\* lines 343-354: _play_response under wait_for(per_step_timeout), then the
\* buffer is reset
Speak ==
    /\ pc = "speak"
    /\ \E r \in Allowed(PlayOutcomes \cup {"timeout"}, {"played"}) :
         /\ Fault(r # "played")
         /\ spoken' = PlaySpoken(spoken, r, ai_response)
         /\ IF r = "played"
            THEN /\ audio_buffer' = << >>
                 /\ buffer_duration_ms' = 0
                 /\ Goto("loop_timeout",
                         PlayStore(store, redisUp, now, r, ai_response, "response"))
            ELSE /\ UNCHANGED bufVars
                 /\ LoopRaise(PlayRaises(r), store)
    /\ UNCHANGED << envVars, ariVars, iteration, textVars, countVars,
                    lastFailure, teardown, outcome, logVars, sideVars, loop_duration >>

\* the time an iteration can have taken: the budget exactly, or more
LoopDurations == { total_loop_timeout, total_loop_timeout + 1 }

ExceedsBudgetInclusive(d) == d >= total_loop_timeout

\* line 358: loop_duration > self.total_loop_timeout
ExceedsBudget(d) == d > total_loop_timeout

\* lines 356-365: the total time of the iteration is checked
LoopTimeout ==
    /\ pc = "loop_timeout"
    /\ \E d \in LoopDurations :
         /\ loop_duration' = d
         /\ IF ~ExceedsBudget(d)
            THEN Goto("next_chunk", store) /\ UNCHANGED << spoken, faults >>
            ELSE LET s1 == set_exit_reason(store, redisUp, now, "timeout")
                     goodbye == error_responses["timeout"]
                 IN \E r \in Allowed(PlayOutcomes, {"played"}) :
                      /\ Fault(r # "played")
                      /\ spoken' = PlaySpoken(spoken, r, goodbye)
                      /\ IF r = "played"
                         THEN Break("loop_timeout",
                                    PlayStore(s1, redisUp, now, r, goodbye, "goodbye"))
                         ELSE LoopRaise(PlayRaises(r), s1)
    /\ UNCHANGED << envVars, ariVars, iteration, bufVars, textVars,
                    countVars, lastFailure, teardown, outcome, logVars, sideVars >>

\* lines 367-417: the clause that caught the error sets its exit reason,
\* tries the apology (errors of the apology are caught) and breaks or not
Handler ==
    /\ pc = "handler"
    /\ LET clause == InnerClause(exc)
           reason == ClauseReason(clause)
           apology == error_responses[reason]
           s1 == set_exit_reason(store, redisUp, now, reason)
       IN  \E r \in Allowed(PlayOutcomes, {"played"}) :
                /\ Fault(r # "played")
                /\ lastFailure' = [ exc |-> exc, reason |-> reason,
                                    apology |-> apology, played |-> (r = "played"),
                                    iteration |-> iteration,
                                    stt |-> sttCalls, llm |-> llmCalls ]
                /\ spoken' = PlaySpoken(spoken, r, apology)
                /\ LET s2 == PlayStore(s1, redisUp, now, r, apology, "error")
                   IN IF ClauseBreaks(clause, r = "played")
                      THEN Break("handler", s2)
                      ELSE Goto("next_chunk", s2)
    /\ UNCHANGED << envVars, ariVars, iteration, bufVars, textVars,
                    countVars, teardown, outcome, logVars, sideVars, loop_duration >>

-----------------------------------------------------------------------------
(* Teardown *)

TeardownReasonDefault(exit_reason, reason) == reason

\* line 507, `exit_reason or reason`: the stored exit reason when there is
\* one, else the reason the teardown was called with
TeardownReason(exit_reason, reason) ==
    IF exit_reason # None THEN exit_reason ELSE reason

\* _end_call_gracefully: get_state, mark_ending, hangup_call, end_call inside
\* one try; the first error is logged and ends the function
EndCallGracefully ==
    /\ pc = "teardown"
    /\ IF GetStateRaises(redisUp)
       THEN /\ teardown' = [ teardown EXCEPT !.called = TRUE ]
            /\ store' = store
            /\ answered' = answered
       ELSE LET st == RedisGet(store, now)
                exit_reason == IF st = NoEntry THEN None ELSE st.ai_exit_reason
                final == TeardownReason(exit_reason, endReason)
                s1 == mark_ending(store, redisUp, now, final)
            IN  /\ teardown' = [ teardown EXCEPT !.called = TRUE, !.mark = TRUE,
                                                 !.reason = final,
                                                 !.hangup = TRUE, !.sent = session,
                                                 !.delete = TRUE ]
                /\ store' = end_call(s1, redisUp)
                /\ answered' = IF session THEN FALSE ELSE answered
    /\ pc' = "finally"
    /\ UNCHANGED << envVars, faults, session, iteration, bufVars, textVars, exc,
                    endReason, spoken, countVars, lastFailure, loopExit, outcome, logVars, sideVars, loop_duration >>

DisconnectBlocks ==
    /\ pc = "finally"
    /\ pc' = "finally"
    /\ UNCHANGED << envVars, faults, store, ariVars, iteration, bufVars,
                    textVars, exc, endReason, spoken, countVars, lastFailure,
                    loopExit, teardown, outcome, logVars, sideVars, loop_duration >>

\* finally: ari.disconnect; the function returns, or the cancellation
\* continues to the caller
Disconnect ==
    /\ pc = "finally"
    /\ session' = FALSE
    /\ teardown' = [ teardown EXCEPT !.disconnect = TRUE ]
    /\ outcome' = IF exc = "none" THEN "returned" ELSE "raised"
    /\ pc' = "done"
    /\ UNCHANGED << envVars, faults, store, answered, iteration, bufVars,
                    textVars, exc, endReason, spoken, countVars, lastFailure,
                    loopExit, logVars, sideVars, loop_duration >>

-----------------------------------------------------------------------------
(* Environment *)

\* time passes while the loop waits for audio
Tick ==
    /\ pc = "next_chunk"
    /\ now < MaxClock
    /\ now' = now + 1
    /\ UNCHANGED << pc, store, redisUp, outages, faults, ariVars, iteration,
                    bufVars, textVars, exc, endReason, spoken, countVars,
                    lastFailure, loopExit, teardown, outcome, logVars, sideVars, loop_duration >>

\* Redis stops answering
RedisFails ==
    /\ pc # "done"
    /\ redisUp
    /\ outages < MaxOutages
    /\ redisUp' = FALSE
    /\ outages' = outages + 1
    /\ UNCHANGED << pc, store, faults, now, ariVars, iteration, bufVars,
                    textVars, exc, endReason, spoken, countVars, lastFailure,
                    loopExit, teardown, outcome, logVars, sideVars, loop_duration >>

\* Redis answers again
RedisRecovers ==
    /\ pc # "done"
    /\ ~redisUp
    /\ redisUp' = TRUE
    /\ UNCHANGED << pc, store, outages, faults, now, ariVars, iteration,
                    bufVars, textVars, exc, endReason, spoken, countVars,
                    lastFailure, loopExit, teardown, outcome, logVars, sideVars, loop_duration >>

Next ==
    \/ InitializeCall \/ LoadProfile \/ Connect \/ AnswerCall \/ Greeting
    \/ StreamNext \/ StreamEnds \/ StreamFails \/ Cancel
    \/ ShouldEnd \/ SafetyLimit \/ Accumulate \/ Transcribe \/ Silence
    \/ ResetSilence \/ AddUserTurn \/ Generate \/ Speak \/ LoopTimeout
    \/ Handler \/ EndCallGracefully \/ Disconnect
    \/ Tick \/ RedisFails \/ RedisRecovers

Spec == Init /\ [][Next]_vars

\* the steps of the call's own task: every await of handle_inbound_call
\* returns or raises, and the audio stream yields a chunk, ends or fails
Progress ==
    \/ InitializeCall \/ LoadProfile \/ Connect \/ AnswerCall \/ Greeting
    \/ StreamNext \/ StreamEnds \/ StreamFails \/ Cancel
    \/ ShouldEnd \/ SafetyLimit \/ Accumulate \/ Transcribe \/ Silence
    \/ ResetSilence \/ AddUserTurn \/ Generate \/ Speak \/ LoopTimeout
    \/ Handler \/ EndCallGracefully \/ Disconnect

\* the event loop resumes the call's task whenever the awaited operation has
\* an outcome; the environment (clock, Redis) is under no obligation
LiveSpec == Spec /\ WF_vars(Progress)

-----------------------------------------------------------------------------
(* ConversationStateManager on its own: the operations of the store applied *)
(* to the entry of one call by its single writer, in any order, with the    *)
(* clock running past the TTL.  initialize_call is the first operation and  *)
(* is called once (ai_loop_handler.py line 141 is its only call site).      *)

orchVars == << pc, faults, ariVars, iteration, bufVars, textVars, exc, endReason,
               spoken, countVars, lastFailure, loopExit, teardown, outcome,
               loop_duration >>

\* the instants at which the store is used: the start of the call, one tick
\* later, and the expiry of an entry written at each of the two
StoreTimes == { 0, 1, state_ttl, state_ttl + 1 }
\* the next instant after t
NextTime(t) == CHOOSE u \in StoreTimes :
                  u > t /\ \A w \in StoreTimes : w > t => u <= w
StoreRoles == { "user", "assistant" }
StoreContents == { CallerUtterance, PlainResponse }
StoreReasons == { "silence" }

\* the log after an operation: a successful write is dated
Logged(op, ok, writes) ==
    [ op |-> op, ok |-> ok,
      lastWrite |-> IF ok /\ writes THEN now ELSE storeLog.lastWrite ]

\* the entry is readable: Redis answers and the key has not expired
Readable == redisUp /\ RedisGet(store, now) # NoEntry

StoreInit ==
    /\ pc = "store"
    /\ store = NoEntry
    /\ redisUp = TRUE
    /\ outages = 0
    /\ faults = 0
    /\ now = 0
    /\ session = FALSE
    /\ answered = FALSE
    /\ iteration = 0
    /\ audio_buffer = << >>
    /\ buffer_duration_ms = 0
    /\ caller_text = ""
    /\ ai_response = ""
    /\ exc = "none"
    /\ endReason = None
    /\ spoken = << >>
    /\ sttCalls = 0
    /\ llmCalls = 0
    /\ emptyRun = 0
    /\ nonEmpty = 0
    /\ runStart = 0
    /\ heard = << >>
    /\ loop_duration = 0
    /\ lastFailure = NoFailure
    /\ loopExit = "none"
    /\ teardown = NoTeardown
    /\ outcome = "running"
    /\ storeLog = NoStoreLog
    /\ written = << >>
    /\ service = NoService
    /\ NoCalls
    /\ IdleAux

\* initialize_call(call_id, tenant_id, ai_profile_id)
CallInitialize ==
    /\ pc = "store" /\ storeLog.op = "none"
    /\ store' = IF redisUp THEN initialize_call(now) ELSE store
    /\ storeLog' = Logged("initialize_call", redisUp, TRUE)
    /\ UNCHANGED << orchVars, sideVars, envVars, written >>

\* get_state(call_id)
CallGetState ==
    /\ pc = "store" /\ storeLog.op # "none"
    /\ storeLog' = Logged("get_state", Readable, FALSE)
    /\ UNCHANGED << orchVars, sideVars, envVars, store, written >>

\* add_turn(call_id, role, content)
CallAddTurn ==
    /\ pc = "store" /\ storeLog.op # "none"
    /\ Len(written) < MaxAppends
    /\ \E role \in StoreRoles, content \in StoreContents :
         /\ store' = add_turn(store, redisUp, now, role, content)
         /\ storeLog' = Logged("add_turn", ~AddTurnRaises(store, redisUp, now), TRUE)
         /\ written' = IF AddTurnRaises(store, redisUp, now) THEN written
                       ELSE Append(written, [role |-> role, content |-> content])
    /\ UNCHANGED << orchVars, sideVars, envVars >>

\* increment_silence_count(call_id)
CallIncrementSilence ==
    /\ pc = "store" /\ storeLog.op # "none"
    /\ store # NoEntry => store.silence_count < MaxSilence
    /\ store' = increment_silence_count(store, redisUp, now)
    /\ storeLog' = Logged("increment_silence_count", Readable, TRUE)
    /\ UNCHANGED << orchVars, sideVars, envVars, written >>

\* reset_silence_count(call_id)
CallResetSilence ==
    /\ pc = "store" /\ storeLog.op # "none"
    /\ store' = reset_silence_count(store, redisUp, now)
    /\ storeLog' = Logged("reset_silence_count", Readable, TRUE)
    /\ UNCHANGED << orchVars, sideVars, envVars, written >>

\* set_exit_reason(call_id, reason)
CallSetExitReason ==
    /\ pc = "store" /\ storeLog.op # "none"
    /\ \E reason \in StoreReasons :
         store' = set_exit_reason(store, redisUp, now, reason)
    /\ storeLog' = Logged("set_exit_reason", Readable, TRUE)
    /\ UNCHANGED << orchVars, sideVars, envVars, written >>

\* mark_ending(call_id, reason)
CallMarkEnding ==
    /\ pc = "store" /\ storeLog.op # "none"
    /\ \E reason \in { None, "completed" } :
         store' = mark_ending(store, redisUp, now, reason)
    /\ storeLog' = Logged("mark_ending", Readable, TRUE)
    /\ UNCHANGED << orchVars, sideVars, envVars, written >>

\* end_call(call_id)
CallEndCall ==
    /\ pc = "store" /\ storeLog.op # "none"
    /\ store' = end_call(store, redisUp)
    /\ storeLog' = Logged("end_call", redisUp, FALSE)
    /\ UNCHANGED << orchVars, sideVars, envVars, written >>

\* time passes between two operations; the call starts at time 0
StoreTick ==
    /\ pc = "store" /\ storeLog.op # "none"
    /\ \E u \in StoreTimes : u > now
    /\ now' = NextTime(now)
    /\ UNCHANGED << orchVars, sideVars, store, redisUp, outages, logVars >>

StoreNext ==
    \/ CallInitialize \/ CallGetState \/ CallAddTurn \/ CallIncrementSilence
    \/ CallResetSilence \/ CallSetExitReason \/ CallMarkEnding \/ CallEndCall
    \/ StoreTick \/ RedisFails \/ RedisRecovers

StoreSpec == StoreInit /\ [][StoreNext]_vars

-----------------------------------------------------------------------------
(* STTService, LLMService, TTSService: one invocation of a turn service by  *)
(* the orchestrator, either under asyncio.wait_for(per_step_timeout) (lines *)
(* 289-292, 328-331, 345-348 of ai_loop_handler.py) or without it (the      *)
(* greeting, the goodbye and apology lines).  Times are in milliseconds.    *)

\* every variable of the call and of the store
mainVars == << orchVars, envVars, store, logVars >>

\* the state of the call and of the store while neither is running
IdleMain(p) ==
    /\ pc = p
    /\ store = NoEntry
    /\ redisUp = TRUE
    /\ outages = 0
    /\ faults = 0
    /\ now = 0
    /\ session = FALSE
    /\ answered = FALSE
    /\ iteration = 0
    /\ audio_buffer = << >>
    /\ buffer_duration_ms = 0
    /\ caller_text = ""
    /\ ai_response = ""
    /\ exc = "none"
    /\ endReason = None
    /\ spoken = << >>
    /\ sttCalls = 0
    /\ llmCalls = 0
    /\ emptyRun = 0
    /\ nonEmpty = 0
    /\ runStart = 0
    /\ heard = << >>
    /\ loop_duration = 0
    /\ lastFailure = NoFailure
    /\ loopExit = "none"
    /\ teardown = NoTeardown
    /\ outcome = "running"
    /\ storeLog = NoStoreLog
    /\ written = << >>

ServiceNames == { "stt", "llm", "tts" }

\* self.max_retries of each service
max_retries(name) == IF name = "llm" THEN 0 ELSE 2

\* self.retry_delay of each service
retry_delay(name) == IF name = "llm" THEN 0 ELSE 1000

\* the default `timeout` argument of each service method
ServiceTimeout(name) == IF name = "stt" THEN 10000 ELSE 15000

\* the time a backing service takes to answer or refuse
RequestLatencies == { QuickRequestMs, SlowRequestMs }

\* 2 ** attempt
Pow2(n) == IF n = 0 THEN 1 ELSE IF n = 1 THEN 2 ELSE 4

\* asyncio.wait_for of the orchestrator: an await of duration d that would
\* end after the budget is cancelled (budget 0: no wait_for)
OuterCancels(d) == service.budget > 0 /\ service.elapsed + d > service.budget

\* `if not audio_bytes: return ""` of stt.py and `if not text: return b""`
\* of tts.py; llm.py has no such test
EmptyInputReturns(name, empty) == empty /\ name # "llm"

ServiceInit ==
    /\ IdleMain("service")
    /\ service = NoService
    /\ NoCalls
    /\ IdleAux

\* the orchestrator awaits transcribe_audio, generate_response or
\* synthesize_speech
ServiceInvoke ==
    /\ pc = "service"
    /\ service.phase \in { "idle", "returned", "raised", "cancelled" }
    /\ \E name \in ServiceNames, budget \in { 0, per_step_timeout },
          empty \in BOOLEAN :
         service' = [ name |-> name, budget |-> budget, attempt |-> 0,
                      requests |-> 0, elapsed |-> 0,
                      phase |-> IF EmptyInputReturns(name, empty)
                                THEN "returned" ELSE "request" ]
    /\ UNCHANGED << mainVars, auxVars, sharedVars >>

\* one pass of `for attempt in range(self.max_retries + 1)`: the request is
\* sent to the backing service and answered, refused or timed out
ServiceRequest ==
    /\ pc = "service"
    /\ service.phase = "request"
    /\ \E r \in { "ok", "error", "timeout" }, latency \in RequestLatencies :
         LET d == IF r = "timeout" THEN ServiceTimeout(service.name)
                  ELSE latency
         IN  service' =
               IF OuterCancels(d)
               THEN [ service EXCEPT !.requests = @ + 1, !.phase = "cancelled",
                                     !.elapsed = service.budget ]
               ELSE [ service EXCEPT
                        !.requests = @ + 1,
                        !.elapsed = @ + d,
                        !.phase = IF r = "ok" THEN "returned"
                                  ELSE IF service.attempt < max_retries(service.name)
                                  THEN "backoff" ELSE "raised" ]
    /\ UNCHANGED << mainVars, auxVars, sharedVars >>

\* asyncio.sleep(self.retry_delay * 2 ** attempt) before the next attempt
ServiceBackoff ==
    /\ pc = "service"
    /\ service.phase = "backoff"
    /\ LET delay == retry_delay(service.name) * Pow2(service.attempt)
       IN  service' =
             IF OuterCancels(delay)
             THEN [ service EXCEPT !.phase = "cancelled", !.elapsed = service.budget ]
             ELSE [ service EXCEPT !.attempt = @ + 1, !.elapsed = @ + delay,
                                   !.phase = "request" ]
    /\ UNCHANGED << mainVars, auxVars, sharedVars >>

ServiceNext == ServiceInvoke \/ ServiceRequest \/ ServiceBackoff

ServiceSpec == ServiceInit /\ [][ServiceNext]_vars

-----------------------------------------------------------------------------
(* Two calls handled concurrently by one AILoopHandler: handle_inbound_call *)
(* runs once per call id on the same object, so both coroutines use the     *)
(* same self.ari and the same self.state_mgr.  Each await is a point where  *)
(* the other call may run.  Redis answers and no key expires here.          *)

\* store operations of a turn
TurnOps == { "add_turn", "increment_silence_count", "reset_silence_count",
            "set_exit_reason" }

\* the entry of call c after operation op
ApplyOp(op, s) ==
    IF op = "add_turn" THEN add_turn(s, TRUE, now, "user", CallerUtterance)
    ELSE IF op = "increment_silence_count" THEN increment_silence_count(s, TRUE, now)
    ELSE IF op = "reset_silence_count" THEN reset_silence_count(s, TRUE, now)
    ELSE set_exit_reason(s, TRUE, now, "silence")

\* the operation is recorded with the call id it was invoked with
Invoked(c, op) == lastOp' = [ call |-> c, op |-> op, seq |-> lastOp.seq + 1 ]

ConcurrentInit ==
    /\ IdleMain("calls")
    /\ service = NoService
    /\ NoCalls
    /\ IdleAux

\* line 141: state_mgr.initialize_call(call_id, ...)
ConcInitialize(c) ==
    /\ pc = "calls"
    /\ calls[c].phase = "new"
    /\ keyspace' = [ keyspace EXCEPT ![_call_key(c)] = initialize_call(now) ]
    /\ Invoked(c, "initialize_call")
    /\ calls' = [ calls EXCEPT ![c].phase = "initialized" ]
    /\ UNCHANGED << mainVars, auxVars, service, client >>

\* line 160: ari.connect() assigns a new ClientSession to self.session
ConcConnect(c) ==
    /\ pc = "calls"
    /\ calls[c].phase = "initialized"
    /\ client' = [ session |-> client.next,
                   opened  |-> client.opened \cup { client.next },
                   next    |-> client.next + 1 ]
    /\ calls' = [ calls EXCEPT ![c].phase = "connected", ![c].uses = client.next ]
    /\ UNCHANGED << mainVars, auxVars, service, keyspace, lastOp >>

\* a media operation of the call (answer, play, stream): a request on
\* self.session, which fails when that session has been closed
ConcMedia(c) ==
    /\ pc = "calls"
    /\ calls[c].phase = "connected"
    /\ calls[c].media = "none"
    /\ calls' = [ calls EXCEPT ![c].media =
                     IF client.session \in client.opened THEN "ok"
                     ELSE "session_closed" ]
    /\ UNCHANGED << mainVars, auxVars, service, client, keyspace, lastOp >>

\* a store operation of a turn, invoked with the call's own id
ConcStoreOp(c) ==
    /\ pc = "calls"
    /\ calls[c].phase = "connected"
    /\ calls[c].ops < MaxCallOps
    /\ \E op \in TurnOps :
         /\ keyspace' = [ keyspace EXCEPT ![_call_key(c)] = ApplyOp(op, @) ]
         /\ Invoked(c, op)
    /\ calls' = [ calls EXCEPT ![c].ops = @ + 1 ]
    /\ UNCHANGED << mainVars, auxVars, service, client >>

\* _end_call_gracefully: mark_ending, hangup, end_call
ConcEndCall(c) ==
    /\ pc = "calls"
    /\ calls[c].phase = "connected"
    /\ keyspace' = [ keyspace EXCEPT ![_call_key(c)] =
                       end_call(mark_ending(@, TRUE, now,
                                            TeardownReason(@.ai_exit_reason,
                                                           "completed")), TRUE) ]
    /\ Invoked(c, "end_call")
    /\ calls' = [ calls EXCEPT ![c].phase = "teardown" ]
    /\ UNCHANGED << mainVars, auxVars, service, client >>

\* finally: ari.disconnect() closes self.session, whichever call opened it
ConcDisconnect(c) ==
    /\ pc = "calls"
    /\ calls[c].phase = "teardown"
    /\ client' = [ client EXCEPT !.opened = @ \ { client.session } ]
    /\ calls' = [ calls EXCEPT ![c].phase = "done" ]
    /\ UNCHANGED << mainVars, auxVars, service, keyspace, lastOp >>

ConcurrentNext ==
    \E c \in CallIds :
        \/ ConcInitialize(c) \/ ConcConnect(c) \/ ConcMedia(c)
        \/ ConcStoreOp(c) \/ ConcEndCall(c) \/ ConcDisconnect(c)

ConcurrentSpec == ConcurrentInit /\ [][ConcurrentNext]_vars

-----------------------------------------------------------------------------
(* ARIClient._is_silence: the voice-activity detector applied to one chunk  *)
(* of PCM audio.  A chunk is a sequence of bytes; a sample is two bytes,    *)
(* little-endian, signed.                                                   *)

\* byte values: with 0 and 1 as high byte the samples 243, 244 (quiet),
\* 499 and 500 (either side of the threshold), with 254 a loud negative one
ChunkByteValues == { 0, 1, 243, 244, 254 }

\* the chunks of at most MaxChunkBytes bytes
Chunks == UNION { [ 1..n -> ChunkByteValues ] : n \in 0..MaxChunkBytes }

\* a 16-bit little-endian signed sample (format 'h')
Sample(lo, hi) == LET u == lo + 256 * hi IN IF u >= 32768 THEN u - 65536 ELSE u

\* struct.unpack(f'<{len(chunk) // 2}h', chunk) raises struct.error unless
\* the chunk is exactly len // 2 samples long
UnpackRaises(chunk) == Len(chunk) # 2 * (Len(chunk) \div 2)

\* the complete samples of the chunk
Samples(chunk) ==
    [ i \in 1..(Len(chunk) \div 2) |-> Sample(chunk[2 * i - 1], chunk[2 * i]) ]

\* sum(s * s for s in samples)
RECURSIVE SumSquares(_)
SumSquares(samples) ==
    IF samples = << >> THEN 0
    ELSE Head(samples) * Head(samples) + SumSquares(Tail(samples))

\* rms < threshold with rms = (sum / len) ** 0.5, over the integers:
\* sum / len < threshold ** 2
RmsBelow(samples, threshold) ==
    SumSquares(samples) < threshold * threshold * Len(samples)

\* _is_silence: empty chunks and chunks that cannot be unpacked are silent
_is_silence(chunk) ==
    IF Len(chunk) = 0 THEN TRUE
    ELSE IF UnpackRaises(chunk) THEN TRUE
    ELSE RmsBelow(Samples(chunk), silence_threshold)

\* every variable but vad
notVad == << mainVars, service, sharedVars, stream, notif, tata >>

VadInit ==
    /\ IdleMain("vad")
    /\ service = NoService
    /\ NoCalls
    /\ vad \in { [ chunk |-> c, results |-> << >> ] : c \in Chunks }
    /\ stream = NoStream
    /\ notif = NoNotif
    /\ tata = NoTata

\* the detector is called on the chunk (again)
Classify ==
    /\ pc = "vad"
    /\ Len(vad.results) < 2
    /\ vad' = [ vad EXCEPT !.results = Append(@, _is_silence(vad.chunk)) ]
    /\ UNCHANGED notVad

VadNext == Classify

VadSpec == VadInit /\ [][VadNext]_vars

-----------------------------------------------------------------------------
(* NotificationService.send_call_summary invoked several times for the same *)
(* call id on one database.  The coroutine yields at the two awaits         *)
(* (whatsapp_adapter.send_message, email_adapter.send_email); the code      *)
(* between them is synchronous.                                             *)

\* every variable but notif
notNotif == << mainVars, service, sharedVars, vad, stream, tata >>

\* NotificationLog has a row with status "sent" for the call
AlreadySent(log) == \E k \in 1..Len(log) : log[k].status = "sent"

\* outcomes of an adapter's send: the boolean it returns, or an exception
SendOutcomes == { "sent", "refused", "exception" }

\* _log_notification_attempt: the row is added unless the commit fails
LogAttempt(log, type, status, commits) ==
    IF commits THEN Append(log, [ type |-> type, status |-> status ]) ELSE log

\* the invocation after the channel `type` answered: finished on success,
\* else on to the email fallback when there is one
AfterSend(v, type, ok) ==
    [ v EXCEPT !.tried = Append(@, type),
               !.pc = IF ok THEN "returned_true"
                      ELSE IF type = "whatsapp" /\ v.email THEN "email"
                      ELSE "returned_false" ]

NotifyInit ==
    /\ IdleMain("notify")
    /\ service = NoService
    /\ NoCalls
    /\ vad = NoVad
    /\ stream = NoStream
    /\ notif = NoNotif
    /\ tata = NoTata

\* lines 98-111 and the choice of the first channel
NotifyBegin(i) ==
    /\ pc = "notify"
    /\ notif.inv[i].pc = "idle"
    /\ \E phone \in BOOLEAN, email \in BOOLEAN :
         notif' = [ notif EXCEPT !.inv[i] =
                      [ pc |-> IF AlreadySent(notif.log) THEN "returned_true"
                               ELSE IF phone THEN "whatsapp"
                               ELSE IF email THEN "email"
                               ELSE "returned_false",
                        phone |-> phone, email |-> email, tried |-> << >> ] ]
    /\ UNCHANGED notNotif

\* _try_whatsapp, _try_email: the send completes and the attempt is logged
NotifySend(i) ==
    /\ pc = "notify"
    /\ notif.inv[i].pc \in { "whatsapp", "email" }
    /\ \E r \in SendOutcomes, commits \in BOOLEAN :
         LET type == notif.inv[i].pc
             ok == r = "sent"
         IN  notif' = [ notif EXCEPT
                 !.delivered = IF ok THEN Append(@, type) ELSE @,
                 !.log = LogAttempt(@, type, IF ok THEN "sent" ELSE "failed", commits),
                 !.inv[i] = AfterSend(@, type, ok) ]
    /\ UNCHANGED notNotif

NotifyNext == \E i \in Senders : NotifyBegin(i) \/ NotifySend(i)

NotifySpec == NotifyInit /\ [][NotifyNext]_vars

-----------------------------------------------------------------------------
(* TataTelephonyAdapter.on_inbound_call: one inbound call against a         *)
(* database holding at most one PhoneNumber row for the called DID.  Every  *)
(* database round trip (execute, commit, refresh) may raise.                *)

\* every variable but tata
notTata == << mainVars, service, sharedVars, vad, stream, notif >>

\* no PhoneNumber row has the called DID
NoRow == [ missing |-> TRUE ]

\* the PhoneNumber rows the called DID may have
PhoneRows ==
    { NoRow } \cup
    [ id : PhoneIds, tenant_id : TenantIds, is_active : BOOLEAN ]

\* call_metadata.tenant_id and .phone_number_id as sent by the caller
Supplied == [ tenant_id : TenantIds \cup { None }, phone_number_id : PhoneIds \cup { None } ]

\* CallEvent(event_type, call_metadata)
CallEvent(type, tenant_id, phone_number_id) ==
    [ event_type |-> type, tenant_id |-> tenant_id,
      phone_number_id |-> phone_number_id ]

\* a FAILED event carries the metadata it was given
Failed(t) ==
    [ t EXCEPT !.phase = "returned",
               !.event = CallEvent("FAILED", t.supplied.tenant_id,
                                   t.supplied.phone_number_id) ]

TataInit ==
    /\ IdleMain("tata")
    /\ service = NoService
    /\ NoCalls
    /\ vad = NoVad
    /\ stream = NoStream
    /\ notif = NoNotif
    /\ tata \in [ phase : { "received" }, row : PhoneRows, supplied : Supplied,
                   phone_number : { NoRow }, records : { << >> },
                   event : { CallEvent("none", None, None) } ]

\* _resolve_did_to_phone_number, and the two checks on its result
ResolveDid ==
    /\ pc = "tata"
    /\ tata.phase = "received"
    /\ \E raises \in BOOLEAN :
         LET phone_number == IF raises THEN NoRow ELSE tata.row
         IN  tata' = IF phone_number = NoRow THEN Failed(tata)
                     ELSE IF ~phone_number.is_active THEN Failed(tata)
                     ELSE [ tata EXCEPT !.phase = "create",
                                        !.phone_number = phone_number ]
    /\ UNCHANGED notTata

\* _create_call_record: db.add and db.commit; on an error the transaction
\* is rolled back and None is returned
CommitCall ==
    /\ pc = "tata"
    /\ tata.phase = "create"
    /\ \E raises \in BOOLEAN :
         tata' = IF raises THEN Failed(tata)
                 ELSE [ tata EXCEPT
                          !.phase = "refresh",
                          !.records = Append(@,
                              [ tenant_id |-> tata.phone_number.tenant_id,
                                phone_number_id |-> tata.phone_number.id ]) ]
    /\ UNCHANGED notTata

\* _create_call_record: db.refresh after the commit; on an error the
\* rollback finds nothing to undo and None is returned; otherwise the
\* INITIATED event is built from the resolved ids
RefreshCall ==
    /\ pc = "tata"
    /\ tata.phase = "refresh"
    /\ \E raises \in BOOLEAN :
         tata' = IF raises THEN Failed(tata)
                 ELSE [ tata EXCEPT !.phase = "returned",
                          !.event = CallEvent("INITIATED",
                                              tata.phone_number.tenant_id,
                                              tata.phone_number.id) ]
    /\ UNCHANGED notTata

TataNext == ResolveDid \/ CommitCall \/ RefreshCall

TataSpec == TataInit /\ [][TataNext]_vars

-----------------------------------------------------------------------------
(* ARIClient.stream_audio_from_caller feeding _conversation_loop: the       *)
(* transport classifies every chunk it reads and stops after                *)
(* max_silence_chunks silent ones in a row; the loop buffers what is        *)
(* yielded and transcribes at max_buffer_duration_ms.  Services, transport  *)
(* and store work; audio without a voiced chunk is transcribed as empty     *)
(* text, other audio as text or as empty text.                              *)

\* every variable but stream
notStream == << mainVars, service, sharedVars, vad, notif, tata >>

\* int(self.silence_duration_ms / self.chunk_duration_ms)
max_silence_chunks == silence_duration_ms \div chunk_duration_ms

\* a chunk of silence and a chunk of speech, as PCM bytes
QuietAudio == << 0, 0, 1, 0 >>
LoudAudio == << 0, 254, 0, 2 >>

\* the loop body for a yielded chunk: accumulate, and at the threshold
\* transcribe and apply the silence policy (lines 281-316, 353-354)
Consume(s, silent, understood) ==
    LET duration == s.buffer_duration_ms + chunk_duration_ms
        voiced == s.voiced \/ ~silent
    IN  IF duration < max_buffer_duration_ms
        THEN [ s EXCEPT !.buffer_duration_ms = duration, !.voiced = voiced ]
        ELSE IF voiced /\ understood
        THEN [ s EXCEPT !.buffer_duration_ms = 0, !.voiced = FALSE,
                        !.silence_count = 0, !.transcriptions = @ + 1 ]
        ELSE IF s.silence_count = 0
        THEN [ s EXCEPT !.buffer_duration_ms = 0, !.voiced = FALSE,
                        !.silence_count = 1, !.transcriptions = @ + 1 ]
        ELSE [ s EXCEPT !.buffer_duration_ms = duration,
                        !.silence_count = @ + 1, !.transcriptions = @ + 1,
                        !.exit_reason = "silence", !.phase = "ended" ]

StreamInit ==
    /\ IdleMain("stream")
    /\ service = NoService
    /\ NoCalls
    /\ vad = NoVad
    /\ stream = [ NoStream EXCEPT !.phase = "streaming" ]
    /\ notif = NoNotif
    /\ tata = NoTata

\* lines 272-298: a chunk is read from the response, classified and counted;
\* at max_silence_chunks the generator breaks, otherwise the chunk is
\* yielded and the loop body runs
StreamChunk ==
    /\ pc = "stream"
    /\ stream.phase = "streaming"
    /\ stream.total_chunks < MaxStreamChunks
    /\ \E chunk \in { QuietAudio, LoudAudio }, understood \in BOOLEAN :
         LET silent == _is_silence(chunk)
             counted == [ stream EXCEPT
                            !.total_chunks = @ + 1,
                            !.silence_chunks = IF silent THEN @ + 1 ELSE 0,
                            !.all_silent = @ /\ silent ]
         IN  stream' =
               IF silent /\ counted.silence_chunks >= max_silence_chunks
               THEN [ counted EXCEPT !.phase = "ended", !.last = "vad_stop" ]
               ELSE Consume([ counted EXCEPT !.yielded = @ + 1,
                                             !.last = "yielded" ],
                            silent, understood)
    /\ UNCHANGED notStream

\* the response body ends: the caller hung up
StreamClosed ==
    /\ pc = "stream"
    /\ stream.phase = "streaming"
    /\ stream' = [ stream EXCEPT !.phase = "ended", !.last = "closed" ]
    /\ UNCHANGED notStream

StreamNextStep == StreamChunk \/ StreamClosed

StreamSpec == StreamInit /\ [][StreamNextStep]_vars

-----------------------------------------------------------------------------
(* Properties *)

HasEntry == store # NoEntry
LoopPositions == { "next_chunk", "check_end", "accumulate", "transcribe",
                   "silence", "reset_silence", "add_user_turn", "generate",
                   "speak", "loop_timeout", "handler" }
AfterLoop == { "teardown", "finally", "done" }
LoopEntered == iteration > 0 \/ loopExit # "none"
\* no service or transport fault was injected and Redis always answered
Clean == faults = 0 /\ outages = 0
Last(seq) == seq[Len(seq)]
\* the lines spoken since the current run of empty transcriptions began
SilenceLines == SubSeq(spoken, runStart + 1, Len(spoken))

\* C1: when handle_inbound_call has finished, on whatever path, the session
\* was marked ending, the hangup was attempted, the entry deletion was
\* attempted and the transport was disconnected.
C1_TeardownOnEveryExit ==
    pc = "done" =>
        /\ teardown.mark /\ teardown.hangup /\ teardown.delete
        /\ teardown.disconnect

\* C2: once the stored exit reason is set, no later step of the call stores
\* a different one (the deletion of the entry aside).
C2_ExitReasonWriteOnce ==
    [][ (HasEntry /\ store.ai_exit_reason # None /\ store' # NoEntry)
          => store'.ai_exit_reason = store.ai_exit_reason ]_vars

\* C3: after a handler has caught a transcription, generation or synthesis
\* failure, the loop has ended: no further chunk is consumed and no further
\* transcribe or generate call is made.
C3_ServiceFailureBreaks ==
    lastFailure.exc \in {"STTServiceError", "LLMServiceError", "TTSServiceError"}
      => /\ pc \in AfterLoop
         /\ iteration = lastFailure.iteration
         /\ sttCalls = lastFailure.stt
         /\ llmCalls = lastFailure.llm

\* C4: after a step timeout has been caught, the exit reason requested and
\* (while Redis answers) stored is "timeout", the apology attempted is the
\* timeout line and is the last line spoken when it was played, the loop has
\* ended, and no service is invoked again.
C4_StepTimeoutEndsCall ==
    lastFailure.exc = "TimeoutError"
      => /\ lastFailure.reason = "timeout"
         /\ lastFailure.apology = error_responses["timeout"]
         /\ lastFailure.played => Last(spoken) = error_responses["timeout"]
         /\ pc \in AfterLoop /\ loopExit = "handler"
         /\ iteration = lastFailure.iteration
         /\ sttCalls = lastFailure.stt
         /\ llmCalls = lastFailure.llm
         /\ (pc = "teardown" /\ outages = 0) => store.ai_exit_reason = "timeout"

C4_Witness ==
    /\ lastFailure.exc = "TimeoutError" /\ lastFailure.played
    /\ pc = "done" /\ sttCalls = 1 /\ llmCalls = 0

\* the exit reason the specification assigns to each kind of failure
ExpectedReason(e) ==
    IF e = "STTServiceError" THEN "stt_failure"
    ELSE IF e = "LLMServiceError" THEN "llm_failure"
    ELSE IF e = "TTSServiceError" THEN "tts_failure"
    ELSE IF e = "TimeoutError" THEN "timeout"
    ELSE "general_error"

\* C5: the exit reason a loop handler sets is the one fixed for the kind of
\* failure it caught; playback and store errors give "general_error".
C5_FailureReasonMapping ==
    lastFailure.exc # "none" => lastFailure.reason = ExpectedReason(lastFailure.exc)

\* C6: unless the task was cancelled, handle_inbound_call never ends by
\* raising, and once the loop was entered no error reaches its
\* `except Exception` (the teardown reason is never "failed").
C6_NoErrorPropagates ==
    exc # "CancelledError"
      => /\ outcome # "raised"
         /\ LoopEntered => endReason # "failed"
         /\ pc = "done" => outcome = "returned"

C6_Witness ==
    /\ pc = "done" /\ outcome = "returned"
    /\ lastFailure.exc = "STTServiceError" /\ ~lastFailure.played
    /\ endReason = "completed"

\* C7: no chunk is buffered or transcribed while the stored turn count has
\* reached max_turns, and when the policy check ends the loop at that
\* count the stored exit reason is "max_turns".
C7_MaxTurnsEndsCall ==
    /\ (pc \in {"accumulate", "transcribe"} /\ HasEntry)
         => store.turn_count < MaxTurns
    /\ (pc = "teardown" /\ loopExit = "policy" /\ HasEntry
          /\ store.turn_count >= MaxTurns)
         => store.ai_exit_reason = "max_turns"

C7_Witness ==
    /\ pc = "teardown" /\ loopExit = "policy" /\ Clean
    /\ nonEmpty = MaxTurns /\ sttCalls = MaxTurns /\ llmCalls = MaxTurns
    /\ HasEntry /\ store.ai_exit_reason = "max_turns"
    /\ Last(spoken) = error_responses["max_turns"]

\* C8: in a call without faults, after the first of consecutive empty
\* transcriptions exactly the prompt was spoken and the loop goes on; after
\* the second exactly the prompt and the silence goodbye were spoken, the
\* exit reason is "silence" and the loop has ended.
C8_TwoSilences ==
    Clean =>
      /\ emptyRun <= 2
      /\ (emptyRun = 1 /\ pc # "silence")
           => /\ loopExit \notin {"silence", "handler"}
              /\ loopExit = "none"
                   => SilenceLines = << SilencePrompt >> /\ pc \in LoopPositions
      /\ (emptyRun = 2 /\ pc # "silence")
           => /\ SilenceLines = << SilencePrompt, error_responses["silence"] >>
              /\ loopExit = "silence" /\ pc \in AfterLoop
              /\ pc = "teardown" => store.ai_exit_reason = "silence"

C8_Witness ==
    /\ Clean /\ emptyRun = 2 /\ pc = "teardown" /\ loopExit = "silence"
    /\ SilenceLines = << SilencePrompt, error_responses["silence"] >>

C10_TurnCountStep ==
    (HasEntry /\ store' # NoEntry) =>
       \/ store'.turn_count = store.turn_count
       \/ /\ store'.turn_count = store.turn_count + 1
          /\ pc = "add_user_turn"
          /\ Len(store'.conversation_history) = Len(store.conversation_history) + 1
          /\ Last(store'.conversation_history).role = "user"

C10_TurnCountMatches ==
    (HasEntry /\ outages = 0)
      => store.turn_count =
           nonEmpty - (IF pc \in {"reset_silence", "add_user_turn"} THEN 1 ELSE 0)

C10_TurnCount == []C10_TurnCountMatches /\ [][C10_TurnCountStep]_vars

C10_Witness ==
    /\ HasEntry /\ store.turn_count = 2 /\ nonEmpty = 2
    /\ Len(store.conversation_history) >= 4

\* the step in which the inbound audio stream ends
C12_StreamEndStep ==
    (pc = "next_chunk" /\ loopExit' = "stream_end")
      => /\ pc' = "teardown" /\ endReason' = "completed" /\ exc' = "none"
         /\ store' = store
         /\ spoken' = spoken
         /\ lastFailure' = lastFailure
         /\ sttCalls' = sttCalls /\ llmCalls' = llmCalls

C12_AfterStreamEnd ==
    loopExit = "stream_end"
      => /\ pc \in AfterLoop /\ endReason = "completed"
         /\ (pc = "teardown" /\ HasEntry /\ lastFailure.exc = "none")
              => store.ai_exit_reason = None

\* C12: when the inbound audio stream ends, the loop goes straight to the
\* teardown with reason "completed": the step writes no exit reason, speaks
\* no line, records no failure and calls no service.
C12_CallerHangup == []C12_AfterStreamEnd /\ [][C12_StreamEndStep]_vars

C12_Witness ==
    /\ loopExit = "stream_end" /\ pc = "done" /\ teardown.hangup
    /\ nonEmpty >= 1 /\ lastFailure.exc = "none" /\ outcome = "returned"

\* C13: when a step before the loop failed (initialisation, profile,
\* connect, answer, greeting), the loop was never entered, the teardown ran,
\* the hangup was attempted and the transport was disconnected.
C13_PreLoopFailure ==
    (pc = "done" /\ endReason = "failed" /\ loopExit = "none")
      => /\ iteration = 0 /\ sttCalls = 0 /\ llmCalls = 0
         /\ teardown.called
         /\ teardown.hangup
         /\ teardown.disconnect

\* the step that evaluates the termination policy with the store answering
C14_PolicyStep ==
    (pc = "check_end" /\ pc' # "check_end" /\ redisUp /\ HasEntry)
      => IF store.turn_count >= MaxTurns
         THEN pc' # "accumulate" /\ store'.ai_exit_reason = "max_turns"
         ELSE IF now - store.started_at >= MaxDuration
         THEN pc' # "accumulate" /\ store'.ai_exit_reason = "max_duration"
         ELSE pc' = "accumulate" /\ store' = store

\* every chunk taken from the stream leads to the policy check
C14_EveryIteration ==
    (pc = "next_chunk" /\ iteration' # iteration) => pc' = "check_end"

C14_State ==
    HasEntry =>
      /\ pc = "check_end" => store.state = "active"
      /\ \A state \in { "ending", "ended" } :
            should_end_conversation([ store EXCEPT !.state = state ], now)
              = (IF now >= store.expires THEN "no_state" ELSE "already_ending")
      /\ pc = "accumulate"
            => /\ store.turn_count < MaxTurns
               /\ now - store.started_at < MaxDuration

LoopReasons(exit) ==
    IF exit = "policy" THEN { "max_turns", "max_duration" }
    ELSE IF exit = "safety" THEN { "max_turns" }
    ELSE IF exit = "silence" THEN { "silence" }
    ELSE IF exit = "confusion" THEN { "confusion" }
    ELSE IF exit = "loop_timeout" THEN { "timeout" }
    ELSE IF exit = "stream_error" THEN { "general_error" }
    ELSE IF lastFailure.exc # "none" THEN { lastFailure.reason }
    ELSE { }

\* the teardown passes the stored exit reason to mark_ending when there is
\* one, and its own reason otherwise
C15_TeardownStep ==
    (pc = "teardown" /\ teardown'.mark)
      => teardown'.reason =
           (IF RedisGet(store, now) # NoEntry /\ store.ai_exit_reason # None
            THEN store.ai_exit_reason ELSE endReason)

C15_Recorded ==
    (teardown.mark /\ outages = 0)
      => IF LoopReasons(loopExit) # { }
         THEN teardown.reason \in LoopReasons(loopExit)
         ELSE teardown.reason = endReason /\ endReason \in { "completed", "failed" }

\* C15: the exit reason the teardown records is the one the loop stored,
\* whenever the loop stored one; the reason the teardown was called with
\* ("completed" or "failed") is recorded only when the loop stored none.
C15_ExitReasonPrecedence == []C15_Recorded /\ [][C15_TeardownStep]_vars

C15_Witness ==
    /\ pc = "done" /\ teardown.mark /\ teardown.reason = "silence"
    /\ endReason = "completed" /\ loopExit = "silence"

\* positions of the turns of one role in a history, and how many of them
\* precede position i
RoleIndexes(h, role) == { i \in 1..Len(h) : h[i].role = role }
RoleBefore(h, role, i) == Cardinality({ j \in RoleIndexes(h, role) : j < i })
\* the lines spoken after the greeting
SpokenInLoop == IF spoken = << >> THEN << >> ELSE Tail(spoken)
\* a transcription that was heard and whose user turn is not stored yet
PendingUser == IF pc \in { "reset_silence", "add_user_turn" } THEN 1 ELSE 0

\* a step that makes the stored history longer appends one turn: a user turn
\* is the text just transcribed, an assistant turn is the line that the same
\* step played to the caller
C16_AppendStep ==
    (HasEntry /\ store' # NoEntry
       /\ Len(store'.conversation_history) # Len(store.conversation_history))
      => LET h == store'.conversation_history
             turn == h[Len(h)]
         IN  /\ Len(h) = Len(store.conversation_history) + 1
             /\ SubSeq(h, 1, Len(h) - 1) = store.conversation_history
             /\ turn.role \in { "user", "assistant" }
             /\ turn.role = "user"
                  => /\ pc = "add_user_turn" /\ caller_text # ""
                     /\ turn.content = caller_text
                     /\ Last(heard).text = caller_text
             /\ turn.role = "assistant"
                  => spoken' = Append(spoken, turn.content)

\* while Redis answers, the stored history is the conversation as it
\* happened: its user turns are the transcriptions heard, its assistant
\* turns the lines spoken in the loop, interleaved as they occurred
C16_Order ==
    (HasEntry /\ outages = 0)
      => LET h == store.conversation_history
             users == RoleIndexes(h, "user")
             assistants == RoleIndexes(h, "assistant")
         IN  /\ Cardinality(users) = Len(heard) - PendingUser
             /\ Cardinality(assistants) = Len(SpokenInLoop)
             /\ \A i \in users :
                   LET k == RoleBefore(h, "user", i) + 1
                   IN  /\ h[i].content = heard[k].text
                       /\ RoleBefore(h, "assistant", i) = heard[k].after - 1
             /\ \A i \in assistants :
                   h[i].content = SpokenInLoop[RoleBefore(h, "assistant", i) + 1]

\* C16: a user turn is stored only after a non-empty transcription and an
\* assistant turn only after its line was synthesized and played, and the
\* order of the stored history is the order in which the turns were heard
\* and spoken.
C16_TurnsAfterSuccess == []C16_Order /\ [][C16_AppendStep]_vars

C16_Witness ==
    /\ HasEntry /\ outages = 0 /\ pc = "next_chunk"
    /\ Len(store.conversation_history) = 3
    /\ store.conversation_history[1].content = SilencePrompt
    /\ store.conversation_history[2].role = "user"
    /\ store.conversation_history[3].content = PlainResponse

\* positions of handle_inbound_call, in the order of the entry sequence
EntryRank(p) ==
    IF p = "init" THEN 0 ELSE IF p = "profile" THEN 1
    ELSE IF p = "connect" THEN 2 ELSE IF p = "answer" THEN 3
    ELSE IF p = "greeting" THEN 4 ELSE 5

C21_State ==
    /\ pc = "init" => store = NoEntry
    /\ EntryRank(pc) <= 2 => ~session
    /\ EntryRank(pc) <= 3 => ~answered
    /\ EntryRank(pc) <= 4 => spoken = << >> /\ iteration = 0
    /\ iteration > 0 => spoken # << >> /\ spoken[1] = GreetingLine

C21_Step ==
    \* the session entry is created by the first step only
    /\ (store = NoEntry /\ store' # NoEntry) => pc = "init"
    /\ pc' = "init" => pc = "init"
    \* the entry sequence is walked one step at a time
    /\ (EntryRank(pc) <= 4 /\ pc' \notin { pc, "teardown", "finally" })
         => EntryRank(pc') = EntryRank(pc) + 1
    \* connect follows the creation of the session, answer follows connect
    /\ (~session /\ session') => pc = "connect" /\ store # NoEntry
    /\ (~answered /\ answered') => pc = "answer" /\ session
    \* playing a line and reading a chunk need an answered channel
    /\ spoken' # spoken => answered /\ session
    /\ iteration' # iteration => answered /\ session

\* C21: the session is created once, by the first step; then the transport
\* is connected, then the call is answered, then the greeting is spoken, and
\* only then is the first chunk read; no line is played and no chunk is
\* read on a channel that was not answered.
C21_EntrySequence == []C21_State /\ [][C21_Step]_vars

C21_Witness ==
    /\ pc = "check_end" /\ iteration = 1 /\ answered /\ session
    /\ HasEntry /\ store.started_at = 0 /\ spoken = << GreetingLine >>

\* the canned lines of error_responses
CannedLines == { error_responses[k] : k \in ExitKeys }
\* how often a line was spoken
TimesSpoken(line) == Cardinality({ i \in 1..Len(spoken) : spoken[i] = line })

C22_State ==
    \* a response with a confusion phrase never goes to the ordinary playback
    /\ pc \in { "speak", "loop_timeout" } => ai_response # ConfusedResponse
    \* once it was played the loop has ended, and it was the last line
    /\ loopExit = "confusion"
         => /\ pc \in AfterLoop /\ endReason = "completed"
            /\ ai_response = ConfusedResponse
            /\ Last(spoken) = ConfusedResponse
            /\ TimesSpoken(ConfusedResponse) = 1
            /\ ConfusedResponse \notin CannedLines
            /\ (pc = "teardown" /\ outages = 0)
                 => store.ai_exit_reason = "confusion"
    /\ TimesSpoken(ConfusedResponse) <= 1

C22_Step ==
    \* the step that generates a confused response stores "confusion"
    /\ (pc = "generate" /\ ai_response' = ConfusedResponse /\ llmCalls' # llmCalls
          /\ exc' \notin { "LLMServiceError", "TimeoutError" }
          /\ redisUp /\ HasEntry)
         => /\ store'.ai_exit_reason = "confusion"
            /\ pc' \in { "teardown", "handler" }
            /\ pc' = "teardown" <=> spoken' = Append(spoken, ConfusedResponse)
            /\ pc' = "handler" => spoken' = spoken
    \* nothing is spoken after the confused response
    /\ loopExit = "confusion" => spoken' = spoken

\* C22: when the generated response contains a confusion phrase, the exit
\* reason "confusion" is stored and that very response (no canned line) is
\* played; once it was played the loop has ended, it was spoken exactly
\* once and no line follows it.
C22_Confusion == []C22_State /\ [][C22_Step]_vars

C22_Witness ==
    /\ pc = "done" /\ loopExit = "confusion" /\ Clean
    /\ spoken = << GreetingLine, ConfusedResponse >>
    /\ teardown.reason = "confusion" /\ llmCalls = 1

C23_Step ==
    (pc = "loop_timeout" /\ pc' # "loop_timeout")
      => IF loop_duration' > total_loop_timeout
         THEN /\ pc' \in { "teardown", "handler" }
              /\ (redisUp /\ HasEntry) => store'.ai_exit_reason = "timeout"
              /\ pc' = "teardown"
                   => /\ spoken' = Append(spoken, error_responses["timeout"])
                      /\ loopExit' = "loop_timeout"
              /\ pc' = "handler" => spoken' = spoken
         ELSE /\ pc' = "next_chunk" /\ loopExit' = "none"
              /\ store' = store /\ spoken' = spoken

C23_State ==
    /\ pc = "loop_timeout" => Last(spoken) = ai_response /\ audio_buffer = << >>
    /\ loopExit = "loop_timeout"
         => /\ pc \in AfterLoop /\ loop_duration > total_loop_timeout
            /\ Last(spoken) = error_responses["timeout"]
            /\ spoken[Len(spoken) - 1] = ai_response

\* C23: the total time of the iteration is checked right after the response
\* was spoken: above the budget the loop stores "timeout", speaks the
\* timeout line and ends; otherwise it goes back to listening and writes
\* and speaks nothing.
C23_LoopTimeout == []C23_State /\ [][C23_Step]_vars

C23_Witness ==
    /\ pc = "done" /\ loopExit = "loop_timeout" /\ Clean
    /\ spoken = << GreetingLine, PlainResponse, error_responses["timeout"] >>
    /\ teardown.reason = "timeout" /\ loop_duration = total_loop_timeout + 1

\* the lines of an ongoing conversation: greeting, prompt, generated responses
ConversationLines == { GreetingLine, SilencePrompt, PlainResponse, ConfusedResponse }

C24_Step ==
    spoken' # spoken =>
      LET line == Last(spoken') IN
      /\ spoken' = Append(spoken, line)
      /\ line \in ConversationLines \cup CannedLines
      \* a handler speaks nothing but an apology
      /\ pc = "handler" => line \in CannedLines
      \* a line that ends the loop is canned, or the confused response
      /\ (pc \in LoopPositions /\ pc' = "teardown")
           => line \in CannedLines \cup { ConfusedResponse }
      \* a canned line is the one keyed by the exit reason stored by its step
      /\ (line \in CannedLines /\ redisUp /\ HasEntry)
           => /\ store'.ai_exit_reason \in ExitKeys
              /\ line = error_responses[store'.ai_exit_reason]

\* C24: every closing or apology line is an entry of error_responses, and
\* it is the entry keyed by the exit reason that the step speaking it has
\* stored (while Redis answers); the loop handlers speak nothing else, and
\* a line that ends the loop is such an entry or the confused response.
C24_CannedPhrases == [][C24_Step]_vars

C24_Witness ==
    /\ pc = "teardown" /\ loopExit = "policy" /\ outages = 0
    /\ lastFailure.exc = "LLMServiceError" /\ lastFailure.played
    /\ error_responses["llm_failure"] \in { spoken[i] : i \in 1..Len(spoken) }
    /\ Last(spoken) = error_responses["max_duration"]
    /\ store.ai_exit_reason = "max_duration"

C27_CancelReleases ==
    (pc = "done" /\ exc = "CancelledError" /\ outages = 0)
        => (teardown.hangup /\ teardown.delete)

\* C30: the buffer holds the chunks in arrival order and its duration is
\* the sum of their durations; transcription is started only when the
\* buffered duration, the chunk of this iteration included, has reached the
\* threshold; below the threshold the iteration only appends its chunk and
\* waits for the next one.
C30_State ==
    /\ \A i, j \in 1..Len(audio_buffer) : i < j => audio_buffer[i] < audio_buffer[j]
    /\ buffer_duration_ms = Len(audio_buffer) * chunk_duration_ms
    /\ pc = "transcribe" => buffer_duration_ms >= MaxBufferDurationMs

C30_Step ==
    /\ sttCalls' # sttCalls =>
          /\ buffer_duration_ms >= MaxBufferDurationMs
          /\ audio_buffer[Len(audio_buffer)] = iteration
    /\ (pc = "accumulate" /\ audio_buffer' # audio_buffer) =>
          /\ audio_buffer' = Append(audio_buffer, iteration)
          /\ buffer_duration_ms' < MaxBufferDurationMs =>
                (pc' = "next_chunk" /\ sttCalls' = sttCalls /\ store' = store)

C30_AccumulateThenTranscribe == []C30_State /\ [][C30_Step]_vars

\* a second segment has been transcribed and a chunk of the third is buffered
C30_Witness ==
    /\ sttCalls = 2
    /\ pc = "next_chunk"
    /\ Len(audio_buffer) = 1
    /\ buffer_duration_ms < MaxBufferDurationMs

\* C34: once _end_call_gracefully has run, each of its later steps was
\* attempted whether or not an earlier one failed: the session was marked
\* ending, the channel hangup was attempted and the entry deletion was
\* attempted, also with Redis not answering.
C34_TeardownStepsIndependent ==
    teardown.called => (teardown.mark /\ teardown.hangup /\ teardown.delete)

\* C35: a step that records the exit reason "max_turns" is taken with the
\* stored turn_count at or above max_turns.
C35_Step ==
    (/\ store' # NoEntry
     /\ store'.ai_exit_reason = "max_turns"
     /\ (store = NoEntry \/ store.ai_exit_reason # "max_turns"))
        => (store # NoEntry /\ store.turn_count >= MaxTurns)

C35_MaxTurnsReason == [][C35_Step]_vars

\* chunks needed to reach the transcription threshold from an empty buffer
ChunksPerThreshold ==
    (MaxBufferDurationMs + chunk_duration_ms - 1) \div chunk_duration_ms

\* C36: the loop consumes at most max_iterations chunks, the last of them
\* is neither buffered nor transcribed, and the transcription attempts of a
\* call number at most floor((max_iterations - 1) / chunks-per-threshold).
C36_State ==
    /\ pc \notin { "next_chunk", "check_end" } => iteration <= MaxIterations
    /\ sttCalls <= (MaxIterations - 1) \div ChunksPerThreshold

C36_Step ==
    (pc = "accumulate" /\ iteration >= MaxIterations /\ pc' # pc)
        => (audio_buffer' = audio_buffer /\ sttCalls' = sttCalls /\ pc' = "teardown")

C36_IterationBound == []C36_State /\ [][C36_Step]_vars

\* C37: a transcription request never contains a chunk that an earlier
\* request contained.  Transcription starts as soon as the buffer holds the
\* threshold's worth of chunks, so a buffer that was cleared after the
\* previous attempt holds exactly that many when the next attempt starts;
\* any chunk beyond them was already in the previous request.
C37_NoResubmission ==
    pc = "transcribe" => Len(audio_buffer) = ChunksPerThreshold

\* the stored history: its assistant turns, and their texts in order
IsAssistant(turn) == turn.role = "assistant"
AssistantTurns == SelectSeq(store.conversation_history, IsAssistant)
AssistantLines == [ i \in 1..Len(AssistantTurns) |-> AssistantTurns[i].content ]

\* the lines played after the greeting
PlayedAfterGreeting == IF spoken = << >> THEN << >> ELSE Tail(spoken)

C39_State == faults = 0 => emptyRun <= 2

C39_Step ==
    (faults' = 0 /\ pc = "silence" /\ pc' # "silence")
        => Len(spoken') = Len(spoken) + 1

C39_SilenceLines == []C39_State /\ [][C39_Step]_vars

-----------------------------------------------------------------------------
(* Properties of the store *)

\* position of a lifecycle state in active -> ending -> ended
Rank(state) == IF state = "active" THEN 0 ELSE IF state = "ending" THEN 1 ELSE 2

C11_Step ==
    (store # NoEntry /\ store' # NoEntry) => Rank(store'.state) >= Rank(store.state)

C11_State ==
    store # NoEntry =>
      /\ store.state \in { "active", "ending", "ended" }
      /\ (storeLog.op = "initialize_call" /\ storeLog.ok) => store.state = "active"
      /\ (storeLog.op = "mark_ending" /\ storeLog.ok) => store.state = "ending"

\* C11: over the life of a call the stored state is one of active, ending,
\* ended and never moves backwards: the entry starts active, a successful
\* mark_ending leaves it ending, and no operation turns ending into active.
C11_LifecycleMonotonic == []C11_State /\ [][C11_Step]_vars

C11_Witness ==
    /\ store # NoEntry /\ store.state = "ending"
    /\ storeLog.op = "add_turn" /\ storeLog.ok /\ Len(written) = 2

\* C17: while the session exists, get_conversation_history returns exactly
\* the turns that the successful add_turn calls stored, in call order, each
\* with the role and the content it was given.
C17_RoundTrip ==
    RedisGet(store, now) # NoEntry
      => /\ get_conversation_history(store, now) = written
         /\ Len(store.conversation_history) = Len(written)

C17_Witness ==
    /\ RedisGet(store, now) # NoEntry /\ Len(written) = 2
    /\ written[1] = [ role |-> "assistant", content |-> PlainResponse ]
    /\ written[2] = [ role |-> "user", content |-> CallerUtterance ]
    /\ get_conversation_history(store, now) = written
    /\ storeLog.op = "add_turn" /\ storeLog.ok

\* the operations that only touch the counters, the exit reason and the state
FrameOps == { "increment_silence_count", "reset_silence_count",
              "set_exit_reason", "mark_ending" }

C18_Step ==
    (store # NoEntry /\ store' # NoEntry) =>
      LET h == store.conversation_history
          g == store'.conversation_history
      IN  /\ Len(g) >= Len(h) /\ SubSeq(g, 1, Len(h)) = h
          /\ storeLog'.op \in FrameOps
               => /\ g = h
                  /\ store'.tenant_id = store.tenant_id
                  /\ store'.ai_profile_id = store.ai_profile_id
                  /\ store'.started_at = store.started_at
                  /\ store'.turn_count = store.turn_count

\* C18: every store operation leaves the previous history as a prefix of
\* the stored history, and increment_silence_count, reset_silence_count,
\* set_exit_reason and mark_ending leave the history, tenant_id,
\* ai_profile_id and started_at (and the turn count) as they were.
C18_HistoryAppendOnly == [][C18_Step]_vars

C18_Witness ==
    /\ storeLog.op = "mark_ending" /\ storeLog.ok /\ store # NoEntry
    /\ Len(store.conversation_history) = 2 /\ store.silence_count = 1
    /\ store.ai_exit_reason = "silence" /\ store.state = "ending"
    /\ get_conversation_history(store, now) = written

\* the last successful write is at least one TTL old
Stale == storeLog.lastWrite # -1 /\ now - storeLog.lastWrite >= state_ttl

C19_State ==
    Stale => /\ RedisGet(store, now) = NoEntry
             /\ get_conversation_history(store, now) = << >>

\* a get_state call made when the last write is one TTL old finds nothing
C19_ReadStep ==
    (storeLog'.op = "get_state" /\ now' = now /\ redisUp' = redisUp /\ Stale)
      => ~storeLog'.ok

\* C19: once the TTL has elapsed since the last write of a call, its entry
\* cannot be read any more, whether or not end_call deleted it: get_state
\* finds nothing.
C19_UnreadableAfterTTL == []C19_State /\ [][C19_ReadStep]_vars

C19_Witness ==
    /\ storeLog.op = "get_state" /\ ~storeLog.ok /\ redisUp /\ outages = 0
    /\ store # NoEntry /\ Len(store.conversation_history) = 1
    /\ storeLog.lastWrite = 1 /\ now = state_ttl + 1

\* the operations that write the entry
WriteOps == { "initialize_call", "add_turn", "increment_silence_count",
              "reset_silence_count", "set_exit_reason", "mark_ending" }

\* a stored entry always carries an expiry, one TTL after its last write
C20_State ==
    store # NoEntry => store.expires = storeLog.lastWrite + state_ttl

\* a write that succeeded leaves the entry expiring one full TTL from now
C20_WriteStep ==
    (storeLog' # storeLog /\ storeLog'.op \in WriteOps /\ storeLog'.ok)
      => /\ store' # NoEntry
         /\ store'.expires - now = state_ttl
         /\ RedisGet(store', now) = store'

\* C20: every successful write (initialize_call, add_turn,
\* increment_silence_count, reset_silence_count, set_exit_reason,
\* mark_ending) resets the remaining lifetime of the entry to the full TTL,
\* and no entry is ever stored without an expiry.
C20_WritesRefreshExpiry == []C20_State /\ [][C20_WriteStep]_vars

C20_Witness ==
    /\ storeLog.op = "set_exit_reason" /\ storeLog.ok /\ storeLog.lastWrite = 1
    /\ now = state_ttl /\ RedisGet(store, now) # NoEntry
    /\ store.started_at = 0 /\ store.expires = state_ttl + 1

-----------------------------------------------------------------------------
(* Properties of the turn services *)

\* C25: one invocation of transcribe_audio, generate_response or
\* synthesize_speech sends at most one request to the backing service.
C25_SingleAttempt == service.requests <= 1

-----------------------------------------------------------------------------
(* Properties of two concurrent calls *)

\* C28: while a call is between its connect and its disconnect, the
\* handler's transport session is the one that call opened, and it is open:
\* the other call has neither replaced nor closed it.
C28_CallScopedSession ==
    \A c \in CallIds :
        calls[c].phase \in { "connected", "teardown" }
            => /\ client.session = calls[c].uses
               /\ calls[c].uses \in client.opened

\* C29: a store operation invoked with one call id leaves the entry of
\* every other call id as it was.
C29_Step ==
    lastOp' # lastOp =>
        \A b \in CallIds \ { lastOp'.call } :
            keyspace'[_call_key(b)] = keyspace[_call_key(b)]

C29_StoreIsolation == [][C29_Step]_vars

\* call A has just added a turn while call B holds an entry with a
\* different history
C29_Witness ==
    /\ lastOp.call = "A"
    /\ lastOp.op = "add_turn"
    /\ keyspace[_call_key("A")] # NoEntry
    /\ keyspace[_call_key("B")] # NoEntry
    /\ keyspace[_call_key("B")].silence_count = 1
    /\ keyspace[_call_key("A")].turn_count > keyspace[_call_key("B")].turn_count

-----------------------------------------------------------------------------
(* Properties of the voice-activity detector *)

\* the root-mean-square energy of the chunk's samples is below the threshold
\* (a chunk without a complete sample has no energy)
QuietChunk(chunk) ==
    \/ Len(chunk) \div 2 = 0
    \/ RmsBelow(Samples(chunk), silence_threshold)

\* C31: a chunk is classified silent exactly when the root-mean-square
\* energy of its samples is below the threshold, and classifying the same
\* chunk again gives the same answer.
C31_Classification ==
    \A i \in 1..Len(vad.results) :
        /\ vad.results[i] = QuietChunk(vad.chunk)
        /\ vad.results[i] = vad.results[1]

-----------------------------------------------------------------------------
(* Properties of the notification service *)

\* the rows of the notification log with status "sent"
SentRows == { k \in 1..Len(notif.log) : notif.log[k].status = "sent" }

\* C32: for one call at most one notification is delivered and at most one
\* attempt is logged as sent, however often send_call_summary is invoked;
\* each invocation tries WhatsApp before email.
C32_OneNotification ==
    /\ Len(notif.delivered) <= 1
    /\ Cardinality(SentRows) <= 1
    /\ \A i \in Senders :
         notif.inv[i].tried \in { << >>, << "whatsapp" >>, << "email" >>,
                                  << "whatsapp", "email" >> }

-----------------------------------------------------------------------------
(* Properties of the Tata adapter *)

\* C33: on_inbound_call returns INITIATED only for an active PhoneNumber
\* with the Call record persisted under that row's tenant and id, whatever
\* ids the caller sent; every FAILED event leaves no Call record behind.
C33_InboundCall ==
    tata.phase = "returned" =>
        /\ tata.event.event_type \in { "INITIATED", "FAILED" }
        /\ tata.event.event_type = "INITIATED" =>
              /\ tata.row # NoRow
              /\ tata.row.is_active
              /\ tata.event.tenant_id = tata.row.tenant_id
              /\ tata.event.phone_number_id = tata.row.id
              /\ tata.records = << [ tenant_id |-> tata.row.tenant_id,
                                     phone_number_id |-> tata.row.id ] >>
        /\ tata.event.event_type = "FAILED" => tata.records = << >>

-----------------------------------------------------------------------------
(* Properties of the transport stream *)

\* C40: the stream ends at the chunk that makes max_silence_chunks silent
\* chunks in a row, without yielding it, and a voiced chunk resets the
\* count; and a caller who stays silent until the call ends on its own is
\* still taken to the loop's two-strike exit, with exit reason "silence".
C40_State ==
    /\ stream.silence_chunks <= max_silence_chunks
    /\ stream.last = "vad_stop" <=>
          (stream.phase = "ended" /\ stream.silence_chunks = max_silence_chunks)
    /\ stream.last = "vad_stop" => stream.yielded = stream.total_chunks - 1
    /\ (stream.phase = "ended" /\ stream.all_silent /\ stream.last # "closed")
          => stream.exit_reason = "silence"

C40_Step ==
    stream'.total_chunks # stream.total_chunks =>
        stream'.silence_chunks \in { 0, stream.silence_chunks + 1 }

C40_TransportSilence == []C40_State /\ [][C40_Step]_vars

====
